---- MODULE Spec2Model ----
(***************************************************************************)
(* Model of the paper-soccer core rule engine (packages/core): geometry    *)
(* helpers (utils.ts), move validation (moveValidation.ts) and the         *)
(* GameEngine class (gameEngine.ts) with its makeMove / undo / reset /     *)
(* updateConfig operations and the history replay simulateHistory; and of  *)
(* the presentation layer (PaperSoccerSimple.tsx): its own rule engine     *)
(* useSimpleGameEngine and the decision engine chooseComputerMove.         *)
(***************************************************************************)
EXTENDS Integers, Sequences, FiniteSets, TLC

VARIABLES config, history, state, last, snapshot, ui

vars == <<config, history, state, last, snapshot, ui>>

(* ---------------------------- bounds ----------------------------------- *)

\* longest history explored
MaxMoves == 3

\* engine calls a caller makes while holding on to one getState() snapshot
MaxSnapshotCalls == 1

\* longest valid history handed on to a replay with a corrupt continuation
MaxReplayMoves == 3

\* tallest board whose goal rows are computed
MaxHeight == 8

\* longest game on whose states the decision engine is called
MaxSearchMoves == 2

\* deepest minimax called on its own
MaxDepth == 2

\* largest coordinates of the vertices handed to keyEdge
MaxKeyX == 10
MaxKeyY == 1

\* most invocations of chooseComputerMove repeated on one state, and the
\* longest game on whose states they are repeated
MaxRepeats == 2
MaxRepeatMoves == 2

\* longest game played through the component
MaxUIMoves == 2

\* longest game on whose states the agent is asked for a move on the board
\* of four by four squares
MaxCacheMoves == 2

(* ------------------------- values and inputs --------------------------- *)

\* the null of `Player | null`
NULL == -1

\* board geometries handed to the constructor and to updateConfig
Configs ==
  { [width |-> 3, height |-> 2, goalWidth |-> 2],
    [width |-> 3, height |-> 3, goalWidth |-> 1] }

\* index.ts: the default geometry
DEFAULT_CONFIG == [width |-> 10, height |-> 8, goalWidth |-> 2]

\* geometries whose goal rows are computed: every height from 2 and every
\* goal width that leaves rows 0 and height outside
GoalConfigs ==
  { c \in [width : {DEFAULT_CONFIG.width}, height : 2..MaxHeight,
           goalWidth : 1..(MaxHeight - 1)] : c.goalWidth <= c.height - 1 }

Pos(x, y) == [x |-> x, y |-> y]

\* the vertices handed to keyEdge, one- and two-digit coordinates among them
KeyVertices == { Pos(x, y) : x \in 0..MaxKeyX, y \in 0..MaxKeyY }

\* the vertices of the board of configuration cfg
Vertices(cfg) == { Pos(x, y) : x \in 0..cfg.width, y \in 0..cfg.height }

\* the targets a caller may pass to makeMove: the board's vertices and the
\* ring of out-of-bounds points around them
Targets(cfg) ==
  { Pos(x, y) : x \in (0 - 1)..(cfg.width + 1), y \in (0 - 1)..(cfg.height + 1) }

Range(s) == { s[i] : i \in 1..Len(s) }

Max(a, b) == IF a >= b THEN a ELSE b
Min(a, b) == IF a <= b THEN a ELSE b
Abs(a) == IF a < 0 THEN 0 - a ELSE a

\* the member of a one-member set: The({ e(x) : x \in {v} }) is e of a value
\* v computed once and named x, as a const of the code is
The(S) == CHOOSE x \in S : TRUE

(* ------------------------------ utils.ts ------------------------------- *)

\* decimal digits of a natural number as UTF-16 code units
RECURSIVE Digits(_)
Digits(n) == IF n < 10 THEN <<48 + n>> ELSE Digits(n \div 10) \o <<48 + (n % 10)>>

\* `${n}` for an integer
NumStr(n) == IF n < 0 THEN <<45>> \o Digits(0 - n) ELSE Digits(n)

\* `${p.x},${p.y}`
PosStr(p) == NumStr(p.x) \o <<44>> \o NumStr(p.y)

\* the < of two strings: lexicographic on code units
RECURSIVE StrLess(_, _)
StrLess(s, t) ==
  IF t = <<>> THEN FALSE
  ELSE IF s = <<>> THEN TRUE
  ELSE IF Head(s) # Head(t) THEN Head(s) < Head(t)
  ELSE StrLess(Tail(s), Tail(t))

\* keyEdge without the ordering of the two endpoint strings
keyEdge_directed(a, b) ==
  LET k1 == PosStr(a)
      k2 == PosStr(b)
  IN  k1 \o <<124>> \o k2

keyEdge(a, b) ==
  LET k1 == PosStr(a)
      k2 == PosStr(b)
  IN  IF StrLess(k1, k2) THEN k1 \o <<124>> \o k2 ELSE k2 \o <<124>> \o k1

isAdjacent(a, b) ==
  LET dx == Abs(a.x - b.x)
      dy == Abs(a.y - b.y)
  IN  IF dx = 0 /\ dy = 0 THEN FALSE ELSE dx <= 1 /\ dy <= 1

isBoundary(p, width, height) ==
  p.x = 0 \/ p.x = width \/ p.y = 0 \/ p.y = height

inBounds(p, width, height) ==
  p.x >= 0 /\ p.x <= width /\ p.y >= 0 /\ p.y <= height

isBorderEdge(a, b, width, height) ==
  IF a.y = 0 /\ b.y = 0 THEN TRUE
  ELSE IF a.y = height /\ b.y = height THEN TRUE
  ELSE IF a.x = 0 /\ b.x = 0 THEN TRUE
  ELSE IF a.x = width /\ b.x = width THEN TRUE
  ELSE FALSE

centerPosition(width, height) == Pos(width \div 2, height \div 2)

clonePosition(p) == Pos(p.x, p.y)

goalYRange(height, goalWidth) ==
  LET mid == height \div 2
      a == Max(1, mid - (goalWidth \div 2) + (IF goalWidth % 2 = 0 THEN 0 ELSE 1))
      b == Min(height - 1, mid + ((goalWidth + 1) \div 2))
  IN  IF b < a THEN <<>> ELSE [i \in 1..(b - a + 1) |-> a + i - 1]

isGoal(p, width, height, goalWidth) ==
  LET ys == Range(goalYRange(height, goalWidth))
  IN  IF p.x = 0 /\ p.y \in ys THEN "LEFT"
      ELSE IF p.x = width /\ p.y \in ys THEN "RIGHT"
      ELSE "NONE"

\* the eight directions of incidentDegree, in its order
dirs ==
  << <<-1, -1>>, <<0, -1>>, <<1, -1>>,
     <<-1, 0>>,             <<1, 0>>,
     <<-1, 1>>,  <<0, 1>>,  <<1, 1>> >>

incidentDegree(p, edges, width, height) ==
  Cardinality({ i \in 1..Len(dirs) :
     LET q == Pos(p.x + dirs[i][1], p.y + dirs[i][2])
     IN  /\ inBounds(q, width, height)
         /\ ~(dirs[i][1] = 0 /\ dirs[i][2] = 0)
         /\ keyEdge(p, q) \in edges })

\* willBounce asking for two incident segments instead of one
willBounce_deg2(target, edges, width, height) ==
  IF isBoundary(target, width, height) THEN TRUE
  ELSE incidentDegree(target, edges, width, height) >= 2

\* willBounce without the bounce off the boundary
willBounce_interior(target, edges, width, height) ==
  incidentDegree(target, edges, width, height) >= 1

willBounce(target, edges, width, height) ==
  IF isBoundary(target, width, height) THEN TRUE
  ELSE incidentDegree(target, edges, width, height) >= 1

(* -------------------------- moveValidation.ts -------------------------- *)

\* the (dx, dy) pairs of the nested loops of computeValidMoves, in loop order
loopDirs ==
  << <<-1, -1>>, <<-1, 0>>, <<-1, 1>>,
     <<0, -1>>,  <<0, 0>>,  <<0, 1>>,
     <<1, -1>>,  <<1, 0>>,  <<1, 1>> >>

\* computeValidMoves without the border-segment test
computeValidMoves_border(pos, edges, width, height) ==
  LET cand == [i \in 1..Len(loopDirs) |->
                 [d |-> loopDirs[i], q |-> Pos(pos.x + loopDirs[i][1], pos.y + loopDirs[i][2])]]
      keep(c) == /\ ~(c.d[1] = 0 /\ c.d[2] = 0)
                 /\ inBounds(c.q, width, height)
                 /\ keyEdge(pos, c.q) \notin edges
      kept == SelectSeq(cand, keep)
  IN  [i \in 1..Len(kept) |-> kept[i].q]

computeValidMoves(pos, edges, width, height) ==
  LET cand == [i \in 1..Len(loopDirs) |->
                 [d |-> loopDirs[i], q |-> Pos(pos.x + loopDirs[i][1], pos.y + loopDirs[i][2])]]
      keep(c) == /\ ~(c.d[1] = 0 /\ c.d[2] = 0)
                 /\ inBounds(c.q, width, height)
                 /\ ~isBorderEdge(pos, c.q, width, height)
                 /\ keyEdge(pos, c.q) \notin edges
      kept == SelectSeq(cand, keep)
  IN  [i \in 1..Len(kept) |-> kept[i].q]

\* isValidMove without the border-segment test
isValidMove_border(move, currentPos, edges, width, height) ==
  LET fromOK == move.from.x = currentPos.x /\ move.from.y = currentPos.y
      toOK == /\ inBounds(move.to, width, height)
              /\ isAdjacent(move.from, move.to)
              /\ keyEdge(move.from, move.to) \notin edges
  IN  fromOK /\ toOK

\* isValidMove without the test for an already drawn segment
isValidMove_reuse(move, currentPos, edges, width, height) ==
  LET fromOK == move.from.x = currentPos.x /\ move.from.y = currentPos.y
      toOK == /\ inBounds(move.to, width, height)
              /\ isAdjacent(move.from, move.to)
              /\ ~isBorderEdge(move.from, move.to, width, height)
  IN  fromOK /\ toOK

\* isValidMove looking up the segment under the key of its direction of
\* travel only, so that a segment drawn the other way round is not found
isValidMove_redraw(move, currentPos, edges, width, height) ==
  LET fromOK == move.from.x = currentPos.x /\ move.from.y = currentPos.y
      toOK == /\ inBounds(move.to, width, height)
              /\ isAdjacent(move.from, move.to)
              /\ ~isBorderEdge(move.from, move.to, width, height)
              /\ keyEdge_directed(move.from, move.to) \notin edges
  IN  fromOK /\ toOK

isValidMove(move, currentPos, edges, width, height) ==
  LET fromOK == move.from.x = currentPos.x /\ move.from.y = currentPos.y
      toOK == /\ inBounds(move.to, width, height)
              /\ isAdjacent(move.from, move.to)
              /\ ~isBorderEdge(move.from, move.to, width, height)
              /\ keyEdge(move.from, move.to) \notin edges
  IN  fromOK /\ toOK

willMoveBounce(move, edges, width, height) ==
  willBounce(move.to, edges, width, height)

(* ----------------------------- gameEngine.ts --------------------------- *)

\* initializeGame leaving the list of legal moves empty
initializeGame_noMoves(cfg) ==
  LET pos == centerPosition(cfg.width, cfg.height)
  IN  [edges |-> {}, pos |-> pos, current |-> 0, extraTurn |-> FALSE,
       winner |-> NULL, blockedLoser |-> NULL, validMoves |-> <<>>]

initializeGame(cfg) ==
  LET pos == centerPosition(cfg.width, cfg.height)
      edges == {}
      validMoves == computeValidMoves(pos, edges, cfg.width, cfg.height)
  IN  [edges |-> edges, pos |-> pos, current |-> 0, extraTurn |-> FALSE,
       winner |-> NULL, blockedLoser |-> NULL, validMoves |-> validMoves]

\* makeMove without the early return of a finished game
gameOver_never(st) == FALSE

\* makeMove, first line: the early return of a finished game
gameOver(st) == st.winner # NULL

\* the goal branch leaving a pending extra turn in place
goalUpdate_keepExtra(st) ==
  [st EXCEPT !.winner = st.current, !.validMoves = <<>>]

\* the goal branch leaving the cached legal moves in place
goalUpdate_keepMoves(st) ==
  [st EXCEPT !.winner = st.current, !.extraTurn = FALSE]

\* the goal branch crediting the player who did not move
goalUpdate_opponent(st) ==
  [st EXCEPT !.winner = 1 - st.current, !.extraTurn = FALSE, !.validMoves = <<>>]

\* makeMove, the goal branch
goalUpdate(st) ==
  [st EXCEPT !.winner = st.current, !.extraTurn = FALSE, !.validMoves = <<>>]

\* turn handling that never passes the turn
turnUpdate_noflip(st, bounce) ==
  IF bounce THEN [st EXCEPT !.extraTurn = TRUE]
  ELSE [st EXCEPT !.extraTurn = FALSE]

\* makeMove, bounce and turn handling
turnUpdate(st, bounce) ==
  IF bounce THEN [st EXCEPT !.extraTurn = TRUE]
  ELSE [st EXCEPT !.current = 1 - st.current, !.extraTurn = FALSE]

\* the blocked check naming the other player
blockedUpdate_other(st) ==
  IF Len(st.validMoves) = 0 THEN [st EXCEPT !.blockedLoser = 1 - st.current] ELSE st

\* makeMove without the blocked check
blockedUpdate_skip(st) == st

\* the blocked check passing over a player who is on an extra turn
blockedUpdate_extraTurn(st) ==
  IF Len(st.validMoves) = 0 /\ ~st.extraTurn
  THEN [st EXCEPT !.blockedLoser = st.current]
  ELSE st

\* makeMove, the blocked check after the legal moves are recomputed
blockedUpdate(st) ==
  IF Len(st.validMoves) = 0 THEN [st EXCEPT !.blockedLoser = st.current] ELSE st

\* makeMove(to) on engine state st, history hist, configuration cfg:
\* the returned boolean, the state and history it leaves, and its local `bounce`
makeMove(st, hist, cfg, to) ==
  LET rejected == [ret |-> FALSE, state |-> st, history |-> hist, bounce |-> FALSE]
  IN
  IF gameOver(st) THEN rejected
  ELSE
    LET from == st.pos
        move == [from |-> from, to |-> to]
    IN
    IF ~isValidMove(move, from, st.edges, cfg.width, cfg.height) THEN rejected
    ELSE
      LET k == keyEdge(from, to)
          bounce == willMoveBounce(move, st.edges, cfg.width, cfg.height)
          s1 == [st EXCEPT !.edges = @ \cup {k}, !.pos = clonePosition(to)]
          h1 == Append(hist, move)
          goal == isGoal(s1.pos, cfg.width, cfg.height, cfg.goalWidth)
      IN
      IF goal # "NONE"
      THEN [ret |-> TRUE, state |-> goalUpdate(s1), history |-> h1, bounce |-> bounce]
      ELSE
        LET s2 == turnUpdate(s1, bounce)
            s3 == [s2 EXCEPT !.validMoves =
                      computeValidMoves(s2.pos, s2.edges, cfg.width, cfg.height)]
        IN  [ret |-> TRUE, state |-> blockedUpdate(s3), history |-> h1, bounce |-> bounce]

\* the replay loop skipping an invalid move instead of breaking off
simulateStep_skip(acc, move, cfg) ==
  IF acc.stop THEN acc
  ELSE
    LET fromOK == move.from.x = acc.pos.x /\ move.from.y = acc.pos.y
        toOK == isValidMove(move, acc.pos, acc.edges, cfg.width, cfg.height)
    IN
    IF ~fromOK \/ ~toOK THEN acc
    ELSE
      LET k == keyEdge(move.from, move.to)
          bounce == willMoveBounce(move, acc.edges, cfg.width, cfg.height)
          a1 == [acc EXCEPT !.edges = @ \cup {k}, !.pos = clonePosition(move.to)]
          goal == isGoal(a1.pos, cfg.width, cfg.height, cfg.goalWidth)
      IN
      IF goal # "NONE"
      THEN [a1 EXCEPT !.winner = acc.current, !.extraTurn = FALSE, !.stop = TRUE]
      ELSE IF bounce THEN [a1 EXCEPT !.extraTurn = TRUE]
      ELSE [a1 EXCEPT !.current = 1 - acc.current, !.extraTurn = FALSE]

\* one iteration of the replay loop of simulateHistory; acc.stop is the break
simulateStep(acc, move, cfg) ==
  IF acc.stop THEN acc
  ELSE
    LET fromOK == move.from.x = acc.pos.x /\ move.from.y = acc.pos.y
        toOK == isValidMove(move, acc.pos, acc.edges, cfg.width, cfg.height)
    IN
    IF ~fromOK \/ ~toOK THEN [acc EXCEPT !.stop = TRUE]
    ELSE
      LET k == keyEdge(move.from, move.to)
          bounce == willMoveBounce(move, acc.edges, cfg.width, cfg.height)
          a1 == [acc EXCEPT !.edges = @ \cup {k}, !.pos = clonePosition(move.to)]
          goal == isGoal(a1.pos, cfg.width, cfg.height, cfg.goalWidth)
      IN
      IF goal # "NONE"
      THEN [a1 EXCEPT !.winner = acc.current, !.extraTurn = FALSE, !.stop = TRUE]
      ELSE IF bounce THEN [a1 EXCEPT !.extraTurn = TRUE]
      ELSE [a1 EXCEPT !.current = 1 - acc.current, !.extraTurn = FALSE]

RECURSIVE simulateLoop(_, _, _)
simulateLoop(acc, moves, cfg) ==
  IF moves = <<>> THEN acc
  ELSE simulateLoop(simulateStep(acc, Head(moves), cfg), Tail(moves), cfg)

simulateHistory(hist, cfg) ==
  LET acc0 == [edges |-> {}, pos |-> centerPosition(cfg.width, cfg.height),
               current |-> 0, winner |-> NULL, extraTurn |-> FALSE, stop |-> FALSE]
      acc == simulateLoop(acc0, hist, cfg)
      validMoves == IF acc.winner = NULL
                    THEN computeValidMoves(acc.pos, acc.edges, cfg.width, cfg.height)
                    ELSE <<>>
      blockedLoser == IF acc.winner = NULL /\ Len(validMoves) = 0 THEN acc.current ELSE NULL
  IN  [edges |-> acc.edges, pos |-> acc.pos, current |-> acc.current,
       extraTurn |-> acc.extraTurn, winner |-> acc.winner,
       blockedLoser |-> blockedLoser, validMoves |-> validMoves]

\* undo that takes back the segment, the position and the outcome in place
\* and does not replay the history
undo_incremental(st, hist, cfg) ==
  IF Len(hist) = 0 THEN [ret |-> FALSE, state |-> st, history |-> hist]
  ELSE
    LET lastMove == hist[Len(hist)]
        k == keyEdge(lastMove.from, lastMove.to)
    IN  [ret |-> TRUE,
         state |-> [st EXCEPT !.edges = @ \ {k}, !.pos = clonePosition(lastMove.from),
                              !.winner = NULL, !.blockedLoser = NULL],
         history |-> SubSeq(hist, 1, Len(hist) - 1)]

\* undo that refuses to take back the move that won the game
undo_terminal(st, hist, cfg) ==
  IF Len(hist) = 0 \/ st.winner # NULL
  THEN [ret |-> FALSE, state |-> st, history |-> hist]
  ELSE
    LET h1 == SubSeq(hist, 1, Len(hist) - 1)
    IN  [ret |-> TRUE, state |-> simulateHistory(h1, cfg), history |-> h1]

\* undo, before the replay: the engine's Set object after edges.delete(k)
undoneEdges(st, hist) ==
  IF Len(hist) = 0 THEN st.edges
  ELSE st.edges \ {keyEdge(hist[Len(hist)].from, hist[Len(hist)].to)}

\* undo() on engine state st, history hist, configuration cfg: the returned
\* boolean and the state and history it leaves (the state object is replaced
\* by the replay of the shortened history)
undo(st, hist, cfg) ==
  IF Len(hist) = 0 THEN [ret |-> FALSE, state |-> st, history |-> hist]
  ELSE
    LET h1 == SubSeq(hist, 1, Len(hist) - 1)
    IN  [ret |-> TRUE, state |-> simulateHistory(h1, cfg), history |-> h1]

(* ------------------------------ the machine ---------------------------- *)

\* the record of the last call: its name, argument, return value, the local
\* `bounce` of makeMove, and the engine's state and history before the call
Call(op, to, ret, bounce) ==
  [op |-> op, to |-> to, ret |-> ret, bounce |-> bounce,
   pre |-> state, preHistory |-> history, preConfig |-> config]

\* no presentation layer mounted on the engine
NoUI == [mounted |-> FALSE]

\* no snapshot in the caller's hands
NoSnapshot == [held |-> FALSE]

\* getState(): the object { ...this.state }. Its fields are copied by
\* reference: `returned` is what it read when it was returned, `now` what it
\* reads at present, sharesEdges whether its edges is still the Set object
\* the engine's state holds; calls counts the engine calls made since
getState(st) ==
  [held |-> TRUE, returned |-> st, now |-> st, sharesEdges |-> TRUE, calls |-> 0]

\* what a held snapshot reads after an engine call that left edgesNow in the
\* Set object the engine held before the call, and that kept (or replaced)
\* that object as the engine's edges
snapshotAfter(snap, edgesNow, keepsSet) ==
  IF ~snap.held THEN snap
  ELSE [snap EXCEPT !.now.edges = IF snap.sharesEdges THEN edgesNow ELSE @,
                    !.sharesEdges = snap.sharesEdges /\ keepsSet,
                    !.calls = @ + 1]

\* new GameEngine(config)
Init ==
  /\ config \in Configs
  /\ history = <<>>
  /\ state = initializeGame(config)
  /\ last = [op |-> "new", to |-> state.pos, ret |-> TRUE, bounce |-> FALSE,
             pre |-> state, preHistory |-> <<>>, preConfig |-> config]
  /\ snapshot = NoSnapshot
  /\ ui = NoUI

MakeMove(to) ==
  /\ Len(history) < MaxMoves
  /\ LET r == makeMove(state, history, config, to)
     IN  /\ state' = r.state
         /\ history' = r.history
         /\ last' = Call("makeMove", to, r.ret, r.bounce)
         /\ snapshot' = snapshotAfter(snapshot, r.state.edges, TRUE)
  /\ UNCHANGED <<config, ui>>

Undo ==
  /\ LET r == undo(state, history, config)
     IN  /\ state' = r.state
         /\ history' = r.history
         /\ last' = Call("undo", state.pos, r.ret, FALSE)
         /\ snapshot' = snapshotAfter(snapshot, undoneEdges(state, history), ~r.ret)
  /\ UNCHANGED <<config, ui>>

\* reset that forgets to clear the history
Reset_keepHistory ==
  /\ history' = history
  /\ state' = initializeGame(config)
  /\ last' = Call("reset", state.pos, TRUE, FALSE)
  /\ snapshot' = snapshotAfter(snapshot, state.edges, FALSE)
  /\ UNCHANGED <<config, ui>>

Reset ==
  /\ history' = <<>>
  /\ state' = initializeGame(config)
  /\ last' = Call("reset", state.pos, TRUE, FALSE)
  /\ snapshot' = snapshotAfter(snapshot, state.edges, FALSE)
  /\ UNCHANGED <<config, ui>>

UpdateConfig(newConfig) ==
  /\ config' = newConfig
  /\ history' = <<>>
  /\ state' = initializeGame(newConfig)
  /\ last' = Call("updateConfig", state.pos, TRUE, FALSE)
  /\ snapshot' = snapshotAfter(snapshot, state.edges, FALSE)
  /\ UNCHANGED ui

\* getState(), the caller keeping the object it returns
GetState ==
  /\ snapshot' = getState(state)
  /\ UNCHANGED <<config, history, state, last, ui>>

\* the caller lets go of the snapshot
DropSnapshot ==
  /\ snapshot.held
  /\ snapshot' = NoSnapshot
  /\ UNCHANGED <<config, history, state, last, ui>>

Next ==
  \/ \E to \in Targets(config) : MakeMove(to)
  \/ Undo
  \/ Reset
  \/ \E c \in Configs : UpdateConfig(c)

Spec == Init /\ [][Next]_vars

\* games of accepted moves only, whose histories are the valid prefixes of
\* the move lists replayed by simulateHistory
PlayMove(to) ==
  /\ Len(history) < MaxReplayMoves
  /\ makeMove(state, history, config, to).ret
  /\ MakeMove(to)

NextPlay == \E to \in Vertices(config) : PlayMove(to)

SpecPlay == Init /\ [][NextPlay]_vars

(* ---------------- the helpers of utils.ts called on their own ----------- *)

InitGoal ==
  /\ config \in GoalConfigs
  /\ history = <<>>
  /\ state = initializeGame(config)
  /\ last = [op |-> "new"]
  /\ snapshot = NoSnapshot
  /\ ui = NoUI

\* goalYRange(height, goalWidth) for the geometry at hand
CallGoalYRange ==
  /\ last' = [op |-> "goalYRange", ret |-> goalYRange(config.height, config.goalWidth)]
  /\ UNCHANGED <<config, history, state, snapshot, ui>>

\* isGoal(p, width, height, goalWidth) for a vertex of the board
CallIsGoal(p) ==
  /\ last' = [op |-> "isGoal", to |-> p,
              ret |-> isGoal(p, config.width, config.height, config.goalWidth)]
  /\ UNCHANGED <<config, history, state, snapshot, ui>>

NextGoal ==
  \/ CallGoalYRange
  \/ \E p \in Vertices(config) : CallIsGoal(p)

SpecGoal == InitGoal /\ [][NextGoal]_vars

InitKey ==
  /\ config = DEFAULT_CONFIG
  /\ history = <<>>
  /\ state = initializeGame(config)
  /\ last = [op |-> "new"]
  /\ snapshot = NoSnapshot
  /\ ui = NoUI

\* keyEdge(a, b)
CallKeyEdge(a, b) ==
  /\ last' = [op |-> "keyEdge", a |-> a, b |-> b, ret |-> keyEdge(a, b)]
  /\ UNCHANGED <<config, history, state, snapshot, ui>>

NextKey == \E a \in KeyVertices, b \in KeyVertices : CallKeyEdge(a, b)

SpecKey == InitKey /\ [][NextKey]_vars

\* the engine with a caller that takes snapshots and holds each across at
\* most MaxSnapshotCalls engine calls
NextSnapshot ==
  \/ GetState
  \/ DropSnapshot
  \/ (IF snapshot.held THEN snapshot.calls < MaxSnapshotCalls ELSE TRUE) /\ Next

SpecSnapshot == Init /\ [][NextSnapshot]_vars

TypeOK ==
  /\ config \in Configs
  /\ state.current \in {0, 1}
  /\ state.winner \in {NULL, 0, 1}
  /\ state.blockedLoser \in {NULL, 0, 1}
  /\ Len(history) <= MaxMoves

(* ------------------------ PaperSoccerSimple.tsx ------------------------- *)

\* The presentation layer carries its own copies of keyEdge, isAdjacent,
\* inBounds, isBorderEdge, centerPosition, incidentDegree, willBounce and
\* computeValidMoves, the same code as the core's and modelled by the same
\* operators. Its goalYRange and its engine differ and are modelled here.

\* goalYRange of the presentation layer
simpleGoalYRange(height, goalWidth) ==
  LET rawStart == (height - goalWidth) \div 2
      maxStart == Max(1, height - goalWidth)
      start == Min(Max(rawStart, 1), maxStart)
      inside(y) == y >= 1 /\ y <= height - 1
  IN  SelectSeq([i \in 1..goalWidth |-> start + (i - 1)], inside)

\* isGoal of the presentation layer: the side, or "NONE" for null
simpleIsGoal(p, width, height, goalWidth) ==
  LET ys == Range(simpleGoalYRange(height, goalWidth))
  IN  IF p.x = 0 /\ p.y \in ys THEN "LEFT"
      ELSE IF p.x = width /\ p.y \in ys THEN "RIGHT"
      ELSE "NONE"

\* the initial state of useSimpleGameEngine and of its reset(); starter is
\* the outcome of pickStartingPlayer()
simpleInitialState(cfg, starter) ==
  LET pos == centerPosition(cfg.width, cfg.height)
  IN  [edges |-> {}, pos |-> pos, current |-> starter, extraTurn |-> FALSE,
       winner |-> NULL, blockedLoser |-> NULL,
       validMoves |-> computeValidMoves(pos, {}, cfg.width, cfg.height),
       draw |-> FALSE]

\* the state set when the move ends in a goal
simpleGoalState(st, newEdges, newPos, side) ==
  [edges |-> newEdges, pos |-> newPos, current |-> st.current,
   extraTurn |-> FALSE, winner |-> IF side = "LEFT" THEN 0 ELSE 1,
   blockedLoser |-> NULL, validMoves |-> <<>>, draw |-> FALSE]

\* the no-moves branch keeping the extra turn of a bounce
simpleStalemateState_extra(st, newEdges, newPos, newCurrent, stalemateAsDraw) ==
  [edges |-> newEdges, pos |-> newPos, current |-> newCurrent,
   extraTurn |-> (newCurrent = st.current), winner |-> NULL,
   blockedLoser |-> IF stalemateAsDraw THEN NULL ELSE newCurrent,
   validMoves |-> <<>>, draw |-> stalemateAsDraw]

\* the state set when the move leaves no legal move
simpleStalemateState(st, newEdges, newPos, newCurrent, stalemateAsDraw) ==
  [edges |-> newEdges, pos |-> newPos, current |-> newCurrent,
   extraTurn |-> FALSE, winner |-> NULL,
   blockedLoser |-> IF stalemateAsDraw THEN NULL ELSE newCurrent,
   validMoves |-> <<>>, draw |-> stalemateAsDraw]

\* useSimpleGameEngine.makeMove(to) run on the state and history of its
\* render; ret tells whether it called setState
simpleMakeMove(st, hist, cfg, stalemateAsDraw, to) ==
  LET from == st.pos
      ignored == [ret |-> FALSE, state |-> st, history |-> hist, bounce |-> FALSE]
  IN
  IF st.winner # NULL \/ st.draw THEN ignored
  ELSE IF \/ ~inBounds(to, cfg.width, cfg.height)
          \/ ~isAdjacent(from, to)
          \/ isBorderEdge(from, to, cfg.width, cfg.height)
          \/ keyEdge(from, to) \in st.edges
  THEN ignored
  ELSE
    LET k == keyEdge(from, to)
        bounce == willBounce(to, st.edges, cfg.width, cfg.height)
        newEdges == st.edges \cup {k}
        newPos == Pos(to.x, to.y)
        newHistory == Append(hist, [from |-> from, to |-> to])
        goal == simpleIsGoal(newPos, cfg.width, cfg.height, cfg.goalWidth)
        newCurrent == IF bounce THEN st.current ELSE 1 - st.current
        newValidMoves == computeValidMoves(newPos, newEdges, cfg.width, cfg.height)
        newState ==
          IF goal # "NONE" THEN simpleGoalState(st, newEdges, newPos, goal)
          ELSE IF Len(newValidMoves) = 0
          THEN simpleStalemateState(st, newEdges, newPos, newCurrent, stalemateAsDraw)
          ELSE [edges |-> newEdges, pos |-> newPos, current |-> newCurrent,
                extraTurn |-> bounce, winner |-> NULL, blockedLoser |-> NULL,
                validMoves |-> newValidMoves, draw |-> FALSE]
    IN  [ret |-> TRUE, state |-> newState, history |-> newHistory, bounce |-> bounce]

(* ------------------- the decision engine: simulation -------------------- *)

createSimState(pos, edges, current, extraTurn, validMoves, winner, draw) ==
  [pos |-> pos, edges |-> edges, current |-> current, extraTurn |-> extraTurn,
   winner |-> winner, draw |-> draw, validMoves |-> validMoves]

\* the SimState the computer-turn effect builds from the engine's state
simOf(st) ==
  createSimState(st.pos, st.edges, st.current, st.extraTurn, st.validMoves,
                 st.winner, st.draw)

\* the segment added to the Set that was given, not to a copy of it
newEdgesOf_inPlace(edges, k) ==
  [result |-> edges \cup {k}, given |-> edges \cup {k}, aliased |-> TRUE]

\* const newEdges = new Set(edges); newEdges.add(k): what newEdges holds, what
\* the Set that was given holds afterwards, and whether the two are one object
newEdgesOf(edges, k) ==
  [result |-> edges \cup {k}, given |-> edges, aliased |-> FALSE]

\* simulateMove scoring a blocked position for the blocked player
simulateMove_blocked(sim, move, cfg, stalemateAsDraw) ==
  LET made(bounce, newEdges, goal) ==
        LET nextCurrent == IF bounce THEN sim.current ELSE 1 - sim.current
            moved(nextValidMoves) ==
              IF Len(nextValidMoves) = 0
              THEN IF stalemateAsDraw
                   THEN createSimState(move, newEdges, nextCurrent, FALSE, <<>>,
                                       NULL, TRUE)
                   ELSE createSimState(move, newEdges, nextCurrent, FALSE, <<>>,
                                       nextCurrent, FALSE)
              ELSE createSimState(move, newEdges, nextCurrent, bounce,
                                  nextValidMoves, NULL, FALSE)
        IN  IF goal # "NONE"
            THEN createSimState(move, newEdges, sim.current, FALSE, <<>>,
                                IF goal = "LEFT" THEN 0 ELSE 1, FALSE)
            ELSE The({ moved(nextValidMoves) :
                         nextValidMoves \in
                           {computeValidMoves(move, newEdges, cfg.width, cfg.height)} })
  IN  The({ made(bounce, newEdges, goal) :
              bounce \in {willBounce(move, sim.edges, cfg.width, cfg.height)},
              newEdges \in {newEdgesOf(sim.edges, keyEdge(sim.pos, move)).result},
              goal \in {simpleIsGoal(move, cfg.width, cfg.height, cfg.goalWidth)} })

\* simulateMove(sim, move, config, stalemateAsDraw): the SimState returned
simulateMove(sim, move, cfg, stalemateAsDraw) ==
  LET made(bounce, newEdges, goal) ==
        LET nextCurrent == IF bounce THEN sim.current ELSE 1 - sim.current
            moved(nextValidMoves) ==
              IF Len(nextValidMoves) = 0
              THEN IF stalemateAsDraw
                   THEN createSimState(move, newEdges, nextCurrent, FALSE, <<>>,
                                       NULL, TRUE)
                   ELSE createSimState(move, newEdges, nextCurrent, FALSE, <<>>,
                                       1 - nextCurrent, FALSE)
              ELSE createSimState(move, newEdges, nextCurrent, bounce,
                                  nextValidMoves, NULL, FALSE)
        IN  IF goal # "NONE"
            THEN createSimState(move, newEdges, sim.current, FALSE, <<>>,
                                IF goal = "LEFT" THEN 0 ELSE 1, FALSE)
            ELSE The({ moved(nextValidMoves) :
                         nextValidMoves \in
                           {computeValidMoves(move, newEdges, cfg.width, cfg.height)} })
  IN  The({ made(bounce, newEdges, goal) :
              bounce \in {willBounce(move, sim.edges, cfg.width, cfg.height)},
              newEdges \in {newEdgesOf(sim.edges, keyEdge(sim.pos, move)).result},
              goal \in {simpleIsGoal(move, cfg.width, cfg.height, cfg.goalWidth)} })

\* the SimState given to simulateMove as the call leaves it
simulateMoveGiven(sim, move) ==
  [sim EXCEPT !.edges = newEdgesOf(@, keyEdge(sim.pos, move)).given]

(* ------------------- the decision engine: evaluation -------------------- *)

\* Scores are kept exactly, in tenths: every weight of evaluateMove and
\* evaluateState is a multiple of 0.1 once the goal centre, a multiple of
\* 0.5, is kept doubled.

\* a win worth no more than a good position: 100, in tenths
WIN_SCORE_low == 10 * 100

\* WIN_SCORE and LOSS_SCORE, in tenths
WIN_SCORE == 1000000
LOSS_SCORE == 0 - WIN_SCORE

\* Infinity, beyond every score
Infinity == 1000000000

RECURSIVE SumSeq(_)
SumSeq(q) == IF q = <<>> THEN 0 ELSE Head(q) + SumSeq(Tail(q))

\* computeGoalCenter(height, goalWidth), doubled
computeGoalCenter(height, goalWidth) ==
  LET ys == simpleGoalYRange(height, goalWidth)
  IN  IF Len(ys) = 0 THEN height ELSE (2 * SumSeq(ys)) \div Len(ys)

\* array.some / array.every / array.filter(...).length
Some(q, P(_)) == \E i \in 1..Len(q) : P(q[i])
Every(q, P(_)) == \A i \in 1..Len(q) : P(q[i])
Count(q, P(_)) == Cardinality({ i \in 1..Len(q) : P(q[i]) })

\* evaluateMove(baseState, move, player, config, goalCenter, stalemateAsDraw)
evaluateMove(baseState, move, player, cfg, goalCenter, stalemateAsDraw) ==
  LET evaluated(result) ==
  LET targetSide == IF player = 1 THEN "RIGHT" ELSE "LEFT"
      opponentSide == IF player = 1 THEN "LEFT" ELSE "RIGHT"
      direction == IF player = 1 THEN 1 ELSE 0 - 1
      side(m) == simpleIsGoal(m, cfg.width, cfg.height, cfg.goalWidth)
      forwardProgress == (move.x - baseState.pos.x) * direction
      targetX == IF player = 1 THEN cfg.width ELSE 0
      distanceToTarget == Abs(targetX - move.x)
      ownGoalX == IF player = 1 THEN 0 ELSE cfg.width
      distanceFromOwnGoal == Abs(move.x - ownGoalX)
      distanceFromWalls == Min(move.y, cfg.height - move.y)
      positional ==
          forwardProgress * 420
        - distanceToTarget * 60
        - Abs(goalCenter - 2 * move.y) * 45
        + distanceFromOwnGoal * 35
        + distanceFromWalls * 40
        - (IF player = 1 /\ move.x <= 1 THEN 450 ELSE 0)
        - (IF player = 0 /\ move.x >= cfg.width - 1 THEN 450 ELSE 0)
      responseMoves == result.validMoves
      towardsTarget(m) == side(m) = targetSide
      towardsOpponent(m) == side(m) = opponentSide
      saturated(m) == incidentDegree(m, result.edges, cfg.width, cfg.height) >= 4
      opponentCounter ==
        Count(computeValidMoves(result.pos, result.edges, cfg.width, cfg.height),
              towardsOpponent)
      tactical ==
        IF result.extraTurn
        THEN   180
             + Len(responseMoves) * 18
             + (IF Some(responseMoves, towardsTarget) THEN 1200 ELSE 0)
             - (IF opponentCounter > 0 THEN opponentCounter * 900 ELSE 0)
        ELSE IF Len(responseMoves) = 0
             THEN (IF stalemateAsDraw THEN 200 ELSE 1600)
             ELSE - (IF Some(responseMoves, towardsOpponent) THEN 1600 ELSE 0)
                  - Len(responseMoves) * 24
                  + (IF Every(responseMoves, saturated) THEN 550 ELSE 0)
      score ==
        IF result.winner # NULL
        THEN (IF result.winner = player THEN WIN_SCORE ELSE LOSS_SCORE)
        ELSE IF result.draw
        THEN (IF stalemateAsDraw THEN 0 - 2000 ELSE 0 - 4000)
        ELSE positional + tactical
  IN  [move |-> move, score |-> score, nextState |-> result]
  IN  The({ evaluated(result) :
              result \in {simulateMove(baseState, move, cfg, stalemateAsDraw)} })

\* evaluateState(state, config, goalCenter)
evaluateState(sim, cfg, goalCenter) ==
  LET side(m) == simpleIsGoal(m, cfg.width, cfg.height, cfg.goalWidth)
      right(m) == side(m) = "RIGHT"
      left(m) == side(m) = "LEFT"
      edgeDistanceX == Min(sim.pos.x, cfg.width - sim.pos.x)
      edgeDistanceY == Min(sim.pos.y, cfg.height - sim.pos.y)
      opponentMoves == computeValidMoves(sim.pos, sim.edges, cfg.width, cfg.height)
      availableMoves == IF Len(sim.validMoves) > 0 THEN sim.validMoves
                        ELSE opponentMoves
      mobility == Len(availableMoves)
  IN
  IF sim.winner # NULL THEN (IF sim.winner = 1 THEN WIN_SCORE ELSE LOSS_SCORE)
  ELSE IF sim.draw THEN 0
  ELSE   (2 * sim.pos.x - cfg.width) * 130
       - Abs(goalCenter - 2 * sim.pos.y) * 45
       + (sim.pos.x - (cfg.width - sim.pos.x)) * 40
       + edgeDistanceX * 35
       + edgeDistanceY * 25
       + (IF sim.current = 1 THEN 1 ELSE 0 - 1) * mobility * 35
       - Len(opponentMoves) * 16
       + (IF Some(availableMoves, right) THEN 2000 ELSE 0)
       - (IF Some(availableMoves, left) THEN 2200 ELSE 0)
       - (IF Some(opponentMoves, left) THEN 2600 ELSE 0)
       - (IF edgeDistanceX <= 1 \/ edgeDistanceY <= 1 THEN 450 ELSE 0)

\* shouldExtendSearch(state, config)
shouldExtendSearch(sim, cfg) ==
  LET goal(m) == simpleIsGoal(m, cfg.width, cfg.height, cfg.goalWidth) # "NONE"
      opponentMoves == computeValidMoves(sim.pos, sim.edges, cfg.width, cfg.height)
      moves == IF Len(sim.validMoves) > 0 THEN sim.validMoves ELSE opponentMoves
  IN  IF sim.extraTurn THEN TRUE
      ELSE IF sim.winner # NULL \/ sim.draw THEN FALSE
      ELSE IF Len(moves) <= 2 THEN TRUE
      ELSE IF Some(moves, goal) THEN TRUE
      ELSE Some(opponentMoves, goal)

(* -------------------- the decision engine: search ----------------------- *)

\* array.sort() of strings: ascending by code units
RECURSIVE insertString(_, _)
insertString(sorted, str) ==
  IF sorted = <<>> THEN <<str>>
  ELSE IF StrLess(str, Head(sorted)) THEN <<str>> \o sorted
  ELSE <<Head(sorted)>> \o insertString(Tail(sorted), str)

RECURSIVE sortStrings(_)
sortStrings(q) ==
  IF q = <<>> THEN <<>>
  ELSE The({ insertString(sorted, q[Len(q)]) :
               sorted \in { sortStrings(front) :
                              front \in {SubSeq(q, 1, Len(q) - 1)} } })

\* Array.from(set).sort()
RECURSIVE sortStringSet(_)
sortStringSet(S) ==
  IF S = {} THEN <<>>
  ELSE The({ <<m>> \o sortStringSet(S \ {m}) :
               m \in { x \in S : \A y \in S \ {x} : StrLess(x, y) } })

\* array.join(sep) of strings
RECURSIVE join(_, _)
join(q, sep) ==
  IF q = <<>> THEN <<>>
  ELSE IF Len(q) = 1 THEN q[1]
  ELSE q[1] \o sep \o join(Tail(q), sep)

\* buildStateKey(state): the fields joined by '|', moves and segments sorted
\* and joined by ';'
buildStateKey(sim) ==
  LET edgesKey == join(sortStringSet(sim.edges), <<59>>)
      movesKey == join(sortStrings([i \in 1..Len(sim.validMoves) |->
                                      PosStr(sim.validMoves[i])]), <<59>>)
  IN  join(<< NumStr(sim.pos.x), NumStr(sim.pos.y), NumStr(sim.current),
              NumStr(IF sim.extraTurn THEN 1 ELSE 0),
              NumStr(Len(sim.validMoves)),
              IF sim.winner = NULL THEN <<110, 117, 108, 108>> ELSE NumStr(sim.winner),
              NumStr(IF sim.draw THEN 1 ELSE 0),
              movesKey, edgesKey >>, <<124>>)

\* minimax called without a cache
NoCache == [present |-> FALSE]

\* new Map<string, TranspositionEntry>()
newTable == [present |-> TRUE, map |-> <<>>]

\* cache.set(key, { depth, value }) when there is a cache
cacheSet(cache, key, depth, value) ==
  IF cache.present
  THEN [cache EXCEPT !.map = (key :> [depth |-> depth, value |-> value]) @@ @]
  ELSE cache

\* a cached entry reused whatever depth it was stored for
cacheHit_anyDepth(cached, depth) == TRUE

\* cached.depth >= depth
cacheHit(cached, depth) == cached.depth >= depth

\* the extension searched two plies deep
extensionDepth_two == 1 + 1

\* the depth of the quiescence extension
extensionDepth == 1

\* the maximizing loop breaking off as soon as a value is within beta
pruneMax_within(value, alpha, beta) == value <= beta

\* if (alpha >= beta) break, in the maximizing loop
pruneMax(value, alpha, beta) == alpha >= beta

\* if (beta <= alpha) break, in the minimizing loop
pruneMin(value, alpha, beta) == beta <= alpha

\* minimax(state, depth, config, goalCenter, stalemateAsDraw, alpha, beta,
\* allowQuiescence, cache). Returned: value, and what the call leaves behind:
\* the cache, the content of the Set state.edges (given), the plies explored
\* below the state, the number of minimax calls made (nodes), the cache
\* entries reused (hits) and those found but passed over (stale), each as
\* <<depth stored, depth requested>>
RECURSIVE minimax(_, _, _, _, _, _, _, _, _)
RECURSIVE searchLoop(_, _, _, _, _, _, _, _, _)

\* the for loop over moves, from move i on; acc carries value, alpha, beta,
\* the cache and the state's segments as the iterations so far left them
searchLoop(sim, moves, i, depth, cfg, goalCenter, stalemateAsDraw, allowQuiescence, acc) ==
  IF i > Len(moves) \/ acc.stop THEN acc
  ELSE
    LET move == moves[i]
        simNow == [sim EXCEPT !.edges = acc.given]
        made == newEdgesOf(simNow.edges, keyEdge(simNow.pos, move))
        stepped(r) ==
          LET value == IF sim.current = 1 THEN Max(acc.value, r.value)
                       ELSE Min(acc.value, r.value)
              alpha == IF sim.current = 1 THEN Max(acc.alpha, value) ELSE acc.alpha
              beta == IF sim.current = 1 THEN acc.beta ELSE Min(acc.beta, value)
          IN  [value |-> value, alpha |-> alpha, beta |-> beta,
               cache |-> r.cache,
               given |-> IF made.aliased THEN r.given ELSE made.given,
               plies |-> Max(acc.plies, 1 + r.plies),
               nodes |-> acc.nodes + r.nodes,
               hits |-> acc.hits \cup r.hits,
               stale |-> acc.stale \cup r.stale,
               stop |-> IF sim.current = 1 THEN pruneMax(value, alpha, beta)
                        ELSE pruneMin(value, alpha, beta)]
    IN  The({ searchLoop(sim, moves, i + 1, depth, cfg, goalCenter,
                         stalemateAsDraw, allowQuiescence, next) :
                next \in { stepped(r) :
                  r \in { minimax(nextState, depth - 1, cfg, goalCenter,
                                  stalemateAsDraw, acc.alpha, acc.beta,
                                  allowQuiescence, acc.cache) :
                    nextState \in {simulateMove(simNow, move, cfg,
                                                stalemateAsDraw)} } } })

minimax(sim, depth, cfg, goalCenter, stalemateAsDraw, alpha, beta, allowQuiescence, cache) ==
  LET keyed(key) ==
        LET known == cache.present /\ key \in DOMAIN cache.map
            passed == IF known THEN {<<cache.map[key].depth, depth>>} ELSE {}
            leaf(v, c) == [value |-> v, cache |-> c, given |-> sim.edges,
                           plies |-> 0, nodes |-> 1, hits |-> {}, stale |-> passed]
            extension(extended) ==
              [extended EXCEPT
                 !.cache = cacheSet(extended.cache, key, depth, extended.value),
                 !.nodes = @ + 1,
                 !.stale = @ \cup passed]
            evaluated(evaluation) ==
              leaf(evaluation, cacheSet(cache, key, depth, evaluation))
            searched(moves) ==
              IF Len(moves) = 0
              THEN leaf(IF stalemateAsDraw THEN 0
                        ELSE IF sim.current = 1 THEN LOSS_SCORE ELSE WIN_SCORE,
                        cache)
              ELSE The({ [value |-> done.value,
                          cache |-> cacheSet(done.cache, key, depth, done.value),
                          given |-> done.given, plies |-> done.plies,
                          nodes |-> done.nodes, hits |-> done.hits,
                          stale |-> done.stale] :
                         done \in { searchLoop(sim, moves, 1, depth, cfg, goalCenter,
                                      stalemateAsDraw, allowQuiescence, first) :
                           first \in {[value |-> IF sim.current = 1
                                                 THEN 0 - Infinity ELSE Infinity,
                                       alpha |-> alpha, beta |-> beta,
                                       cache |-> cache, given |-> sim.edges,
                                       plies |-> 0, nodes |-> 1, hits |-> {},
                                       stale |-> passed, stop |-> FALSE]} } })
        IN
        IF known /\ cacheHit(cache.map[key], depth)
        THEN [leaf(cache.map[key].value, cache)
                EXCEPT !.hits = {<<cache.map[key].depth, depth>>}, !.stale = {}]
        ELSE IF depth = 0 \/ sim.winner # NULL \/ sim.draw
        THEN IF depth = 0 /\ allowQuiescence /\ shouldExtendSearch(sim, cfg)
             THEN The({ extension(extended) :
                          extended \in {minimax(sim, extensionDepth, cfg, goalCenter,
                                                stalemateAsDraw, alpha, beta,
                                                FALSE, cache)} })
             ELSE The({ evaluated(evaluation) :
                          evaluation \in {evaluateState(sim, cfg, goalCenter)} })
        ELSE The({ searched(moves) :
                     moves \in {IF Len(sim.validMoves) > 0 THEN sim.validMoves
                                ELSE computeValidMoves(sim.pos, sim.edges,
                                                       cfg.width, cfg.height)} })
  IN  The({ keyed(key) :
              key \in {IF cache.present THEN buildStateKey(sim) ELSE <<>>} })

(* ---------------------- the decision engine: choice --------------------- *)

Difficulties == {"easy", "normal", "hard"}

\* difficultySettings[difficulty] for n analyses; depthWeight in hundredths,
\* noiseFactor in hundredths
difficultySettings(difficulty, n) ==
  CASE difficulty = "easy" ->
         [searchDepth |-> 0, depthWeight |-> 0, candidateLimit |-> n, noiseFactor |-> 55]
    [] difficulty = "normal" ->
         [searchDepth |-> 2, depthWeight |-> 60, candidateLimit |-> Min(n, 8), noiseFactor |-> 0]
    [] difficulty = "hard" ->
         [searchDepth |-> 4, depthWeight |-> 75, candidateLimit |-> n, noiseFactor |-> 0]

\* analyses.slice().sort((a, b) => b.score - a.score): stable, descending
RECURSIVE insertByScore(_, _)
insertByScore(sorted, a) ==
  IF sorted = <<>> THEN <<a>>
  ELSE IF a.score > Head(sorted).score THEN <<a>> \o sorted
  ELSE <<Head(sorted)>> \o insertByScore(Tail(sorted), a)

RECURSIVE sortByScore(_)
sortByScore(q) ==
  IF q = <<>> THEN <<>>
  ELSE The({ insertByScore(sorted, q[Len(q)]) :
               sorted \in { sortByScore(front) :
                              front \in {SubSeq(q, 1, Len(q) - 1)} } })

\* every neighbour on the board a candidate, its segment drawn or not
candidateMoves_neighbours(sim, cfg) ==
  computeValidMoves(sim.pos, {}, cfg.width, cfg.height)

\* the moves chooseComputerMove analyses: state.validMoves
candidateMoves(sim, cfg) == sim.validMoves

\* state.validMoves.map(evaluateMove), from move i on; given is the content
\* of the Set state.edges as the calls so far left it
RECURSIVE analyse(_, _, _, _, _, _)
analyse(sim, i, cfg, goalCenter, stalemateAsDraw, acc) ==
  IF i > Len(candidateMoves(sim, cfg)) THEN acc
  ELSE
    LET simNow == [sim EXCEPT !.edges = acc.given]
        move == candidateMoves(sim, cfg)[i]
        made == newEdgesOf(simNow.edges, keyEdge(simNow.pos, move))
    IN  The({ analyse(sim, i + 1, cfg, goalCenter, stalemateAsDraw, next) :
                next \in {[analyses |->
                             Append(acc.analyses,
                                    evaluateMove(simNow, move, 1, cfg, goalCenter,
                                                 stalemateAsDraw)),
                           given |-> made.given]} })

\* the easy tier: the analyses that reduce() can return for some outcomes of
\* Math.random() in [0, 1): analysis i wins when score_i * 0.55 + 160 * r_i
\* beats every other jittered score
easyChoices(analyses) ==
  { analyses[i] : i \in { i \in 1..Len(analyses) :
       \A j \in 1..Len(analyses) :
          55 * (analyses[j].score - analyses[i].score) < 160000 } }

\* a candidate replacing the best whenever its score is not lower
chooseStep_noEpsilon(acc, analysis, totalScore) ==
  IF totalScore >= acc.bestScore
  THEN [acc EXCEPT !.bestScore = totalScore, !.chosen = <<analysis>>]
  ELSE acc

\* the body of the loop over the ordered candidates after the search:
\* scores in thousandths, so that the 1e-3 of the code is 1; chosen is <<>>
\* for null
chooseStep(acc, analysis, totalScore) ==
  IF totalScore > acc.bestScore + 1
  THEN [acc EXCEPT !.bestScore = totalScore, !.chosen = <<analysis>>]
  ELSE IF Abs(totalScore - acc.bestScore) <= 1 /\ acc.chosen # <<>>
  THEN IF 100 * analysis.score > 100 * acc.chosen[1].score + 1
       THEN [acc EXCEPT !.chosen = <<analysis>>]
       ELSE acc
  ELSE acc

\* the loop over the ordered candidates, from candidate i on
RECURSIVE chooseLoop(_, _, _, _, _, _, _)
chooseLoop(ordered, i, settings, cfg, goalCenter, stalemateAsDraw, acc) ==
  IF i > Len(ordered) THEN acc
  ELSE
    LET analysis == ordered[i]
        searched == /\ settings.searchDepth > 0
                    /\ analysis.nextState.winner = NULL
                    /\ ~analysis.nextState.draw
        \* the iteration, the search made (r) or not
        scored(totalScore) ==
          [chooseStep(acc, analysis, totalScore) EXCEPT
             !.totals = Append(@, totalScore)]
        after(r) ==
          [scored(100 * analysis.score + r.value * settings.depthWeight) EXCEPT
             !.table = r.cache,
             !.given = IF newEdgesOf(@, <<>>).aliased THEN r.given ELSE @,
             !.hits = @ \cup r.hits,
             !.stale = @ \cup r.stale,
             !.plies = Max(@, r.plies)]
    IN  The({ chooseLoop(ordered, i + 1, settings, cfg, goalCenter,
                         stalemateAsDraw, next) :
                next \in IF searched
                         THEN { after(r) :
                                  r \in {minimax(analysis.nextState,
                                                 settings.searchDepth - 1, cfg,
                                                 goalCenter, stalemateAsDraw,
                                                 0 - Infinity, Infinity, TRUE,
                                                 acc.table)} }
                         ELSE {scored(100 * analysis.score)} })

\* chooseComputerMove(state, config, options) started with the transposition
\* table `table`: the analyses it can return (one, but for the easy tier),
\* the table it started with, and what it leaves behind: the table as the
\* searches filled it, the content of the Set state.edges,
\* and for the search tiers the ordered candidates with their total scores,
\* the plies searched below a candidate and the cache entries met
chooseWith(sim, cfg, options, table) ==
  LET chosenOf(analysed) ==
        LET analyses == analysed.analyses
            settings == difficultySettings(options.difficulty, Len(analyses))
            searchedOf(ordered) ==
              The({ [choices |-> {IF done.chosen = <<>> THEN analyses[1]
                                  ELSE done.chosen[1]},
                     started |-> table,
                     table |-> done.table, given |-> done.given,
                     ordered |-> ordered, totals |-> done.totals,
                     hits |-> done.hits, stale |-> done.stale,
                     plies |-> done.plies] :
                    done \in { chooseLoop(ordered, 1, settings, cfg,
                                          options.goalCenter,
                                          options.stalemateAsDraw, first) :
                      first \in {[chosen |-> <<>>, bestScore |-> 0 - Infinity,
                                  table |-> table, given |-> analysed.given,
                                  totals |-> <<>>, hits |-> {}, stale |-> {},
                                  plies |-> 0]} } })
        IN
        IF options.difficulty = "easy"
        THEN [choices |-> easyChoices(analyses), started |-> table,
              table |-> table, given |-> analysed.given, ordered |-> <<>>,
              totals |-> <<>>, hits |-> {}, stale |-> {}, plies |-> 0]
        ELSE The({ searchedOf(ordered) :
                     ordered \in {SubSeq(sortByScore(analyses), 1,
                                         settings.candidateLimit)} })
  IN  The({ chosenOf(analysed) :
              analysed \in { analyse(sim, 1, cfg, options.goalCenter,
                                     options.stalemateAsDraw, first) :
                first \in {[analyses |-> <<>>, given |-> sim.edges]} } })

\* chooseComputerMove(state, config, options): transpositionTable is a new
\* Map of the invocation
chooseComputerMove(sim, cfg, options) == chooseWith(sim, cfg, options, newTable)

\* the table an earlier invocation left, taken up again
transpositionTable_retained(left) == left

\* const transpositionTable = new Map(), whatever table an earlier
\* invocation left behind
transpositionTable(left) == newTable

\* chooseComputerMove called after an invocation that left the table `left`
chooseComputerMoveAfter(sim, cfg, options, left) ==
  chooseWith(sim, cfg, options, transpositionTable(left))

\* the options the computer-turn effect passes
optionsOf(cfg, difficulty, stalemateAsDraw) ==
  [difficulty |-> difficulty, stalemateAsDraw |-> stalemateAsDraw,
   goalCenter |-> computeGoalCenter(cfg.height, cfg.goalWidth)]

(* --------------------- useSimpleGameEngine on its own ------------------- *)

\* the hook mounted with a geometry, a stalemate policy and a starting player
InitSimple ==
  /\ config \in Configs
  /\ ui \in [mounted : {TRUE}, stalemateAsDraw : BOOLEAN]
  /\ history = <<>>
  /\ \E starter \in {0, 1} : state = simpleInitialState(config, starter)
  /\ last = [op |-> "new", to |-> state.pos, ret |-> TRUE, bounce |-> FALSE,
             pre |-> state, preHistory |-> <<>>, preConfig |-> config]
  /\ snapshot = NoSnapshot

SimpleMakeMove(to) ==
  /\ Len(history) < MaxMoves
  /\ LET r == simpleMakeMove(state, history, config, ui.stalemateAsDraw, to)
     IN  /\ state' = r.state
         /\ history' = r.history
         /\ last' = Call("makeMove", to, r.ret, r.bounce)
  /\ UNCHANGED <<config, snapshot, ui>>

SimpleReset(starter) ==
  /\ history' = <<>>
  /\ state' = simpleInitialState(config, starter)
  /\ last' = Call("reset", state.pos, TRUE, FALSE)
  /\ UNCHANGED <<config, snapshot, ui>>

NextSimple ==
  \/ \E to \in Targets(config) : SimpleMakeMove(to)
  \/ \E starter \in {0, 1} : SimpleReset(starter)

SpecSimple == InitSimple /\ [][NextSimple]_vars

(* ------------------- the decision engine on its own --------------------- *)

\* board geometries the decision engine is run on
SearchConfigs ==
  { [width |-> 2, height |-> 2, goalWidth |-> 1],
    [width |-> 3, height |-> 2, goalWidth |-> 2] }

\* a game of the presentation layer's engine on which the search is called
InitSearch ==
  /\ config \in SearchConfigs
  /\ ui \in [mounted : {TRUE}, stalemateAsDraw : BOOLEAN]
  /\ history = <<>>
  /\ \E starter \in {0, 1} : state = simpleInitialState(config, starter)
  /\ last = [op |-> "new"]
  /\ snapshot = NoSnapshot

\* an accepted move of either player
SearchPlay(to) ==
  /\ Len(history) < MaxSearchMoves
  /\ LET r == simpleMakeMove(state, history, config, ui.stalemateAsDraw, to)
     IN  /\ r.ret
         /\ state' = r.state
         /\ history' = r.history
         /\ last' = [op |-> "makeMove"]
  /\ UNCHANGED <<config, snapshot, ui>>

\* the position at hand has not been searched yet
Unsearched == last.op \in {"new", "makeMove"}

\* chooseComputerMove called as the computer-turn effect calls it, once on a
\* state with a legal move; the SimState holds the engine's own Set of segments
Choose(difficulty) ==
  /\ Unsearched
  /\ state.validMoves # <<>>
  /\ \E r \in {chooseComputerMove(simOf(state), config,
                  optionsOf(config, difficulty, ui.stalemateAsDraw))} :
         /\ last' = [op |-> "chooseComputerMove", difficulty |-> difficulty,
                     sim |-> simOf(state), ret |-> r, earlier |-> <<>>]
         /\ state' = [state EXCEPT !.edges = r.given]
  /\ UNCHANGED <<config, history, snapshot, ui>>

\* chooseComputerMove called again on the state it was just called on, with
\* any difficulty; earlier lists the invocations made on the state before,
\* each as <<difficulty, analyses it can return>>
ChooseAgain(difficulty) ==
  /\ last.op = "chooseComputerMove"
  /\ Len(last.earlier) < MaxRepeats
  /\ \E r \in {chooseComputerMoveAfter(simOf(state), config,
                  optionsOf(config, difficulty, ui.stalemateAsDraw),
                  last.ret.table)} :
         /\ last' = [op |-> "chooseComputerMove", difficulty |-> difficulty,
                     sim |-> simOf(state), ret |-> r,
                     earlier |-> Append(last.earlier,
                                        <<last.difficulty, last.ret.choices>>)]
         /\ state' = [state EXCEPT !.edges = r.given]
  /\ UNCHANGED <<config, history, snapshot, ui>>

\* minimax called on its own with the full window and no cache
CallMinimax(depth, allowQuiescence) ==
  /\ Unsearched
  /\ \E r \in {minimax(simOf(state), depth, config,
                  computeGoalCenter(config.height, config.goalWidth),
                  ui.stalemateAsDraw, 0 - Infinity, Infinity, allowQuiescence,
                  NoCache)} :
         /\ last' = [op |-> "minimax", depth |-> depth,
                     allowQuiescence |-> allowQuiescence,
                     sim |-> simOf(state), ret |-> r]
         /\ state' = [state EXCEPT !.edges = r.given]
  /\ UNCHANGED <<config, history, snapshot, ui>>

\* minimax called with the cache that a search of depth `stored` of the same
\* state filled
CallMinimaxCached(stored, depth) ==
  /\ Unsearched
  /\ \E goalCenter \in {computeGoalCenter(config.height, config.goalWidth)} :
     \E first \in {minimax(simOf(state), stored, config, goalCenter,
                           ui.stalemateAsDraw, 0 - Infinity, Infinity, TRUE,
                           newTable)} :
     \E r \in {minimax([simOf(state) EXCEPT !.edges = first.given], depth,
                       config, goalCenter, ui.stalemateAsDraw, 0 - Infinity,
                       Infinity, TRUE, first.cache)} :
         /\ last' = [op |-> "minimaxCached", stored |-> stored,
                     depth |-> depth, sim |-> simOf(state), ret |-> r]
         /\ state' = [state EXCEPT !.edges = r.given]
  /\ UNCHANGED <<config, history, snapshot, ui>>

NextSearch ==
  \/ \E to \in Vertices(config) : SearchPlay(to)
  \/ \E difficulty \in Difficulties : Choose(difficulty)
  \/ \E depth \in 0..MaxDepth, allowQuiescence \in BOOLEAN :
        CallMinimax(depth, allowQuiescence)

SpecSearch == InitSearch /\ [][NextSearch]_vars

(* -------------------- the search invoked repeatedly --------------------- *)

\* a game on the smallest board
InitRepeat ==
  /\ InitSearch
  /\ config.width = 2

\* an accepted move of either player, in a game of at most MaxRepeatMoves
RepeatPlay(to) ==
  /\ Len(history) < MaxRepeatMoves
  /\ SearchPlay(to)

NextRepeat ==
  \/ \E to \in Vertices(config) : RepeatPlay(to)
  \/ \E difficulty \in Difficulties : Choose(difficulty)
  \/ \E difficulty \in Difficulties : ChooseAgain(difficulty)
  \/ \E stored \in 0..MaxDepth, depth \in 0..MaxDepth :
        CallMinimaxCached(stored, depth)

SpecRepeat == InitRepeat /\ [][NextRepeat]_vars

(* -------------------- the component PaperSoccerSimple ------------------- *)

\* An event handler, the render its state updates cause and the effects of
\* that render run as one step: click and change are discrete events, whose
\* updates React renders and whose effects it runs before it returns to the
\* event loop, and a timer callback is a task of that loop. The effect of the
\* computer's turn has makeMove among its dependencies, a new function at
\* every render, so every render runs its cleanup and the effect again.

BoardSizes == {"small", "medium", "large"}

\* defaultGoalWidth()
defaultGoalWidth == 2

\* BOARD_PRESETS[size] with defaultGoalWidth(), the widths and heights
\* scaled down (10 x 8, 14 x 10 and 18 x 12 in the source) so that games end
\* within MaxUIMoves; no handler looks at the numbers
presetConfig(size) ==
  CASE size = "small" -> [width |-> 2, height |-> 2, goalWidth |-> defaultGoalWidth]
    [] size = "medium" -> [width |-> 3, height |-> 2, goalWidth |-> defaultGoalWidth]
    [] size = "large" -> [width |-> 4, height |-> 2, goalWidth |-> defaultGoalWidth]

NoTimer == [set |-> FALSE]

\* isComputerTurn of a render
isComputerTurn(u, st) ==
  /\ u.mode = "computer"
  /\ st.winner = NULL
  /\ st.blockedLoser = NULL
  /\ ~st.draw
  /\ st.current = 1
  /\ Len(st.validMoves) > 0

\* what the callback given to setTimeout closes over: the values of the
\* render that ran the effect, makeMove of that render included
closureOf(u, cfg, st, hist) ==
  [state |-> st, history |-> hist, config |-> cfg,
   difficulty |-> u.difficulty, mode |-> u.mode]

\* a cleanup that leaves the timer pending
clearTimeout_none(pending, timer) == pending

\* window.clearTimeout(timer)
clearTimeout(pending, timer) == pending \ {timer}

\* the effect of the computer's turn at a render: the cleanup of the run
\* before, then a timer set if it is the computer's turn; u.pending are the
\* timers set and neither fired nor cleared, u.timer the timer the last run
\* of the effect set
computerTurnEffect(u, cfg, st, hist) ==
  LET cleared == IF u.timer.set THEN clearTimeout(u.pending, u.timer.closure)
                 ELSE u.pending
  IN  IF isComputerTurn(u, st)
      THEN [u EXCEPT !.pending = cleared \cup {closureOf(u, cfg, st, hist)},
                     !.timer = [set |-> TRUE,
                                closure |-> closureOf(u, cfg, st, hist)]]
      ELSE [u EXCEPT !.pending = cleared, !.timer = NoTimer]

\* the component mounted: medium board, computer mode, normal difficulty,
\* stalemateAsDraw false, a random starting player, the effects of the first
\* render run
InitUI ==
  /\ config = presetConfig("medium")
  /\ history = <<>>
  /\ \E starter \in {0, 1} : state = simpleInitialState(config, starter)
  /\ ui = computerTurnEffect(
             [mounted |-> TRUE, stalemateAsDraw |-> FALSE, mode |-> "computer",
              difficulty |-> "normal", boardSize |-> "medium",
              timer |-> NoTimer, pending |-> {}],
             config, state, history)
  /\ last = [op |-> "mount"]
  /\ snapshot = NoSnapshot

\* onChoose without its test of the mode: every click goes to makeMove
onChoose_anyTurn(u, st, hist, cfg, p) ==
  IF st.winner # NULL \/ st.draw
  THEN [ret |-> FALSE, state |-> st, history |-> hist, bounce |-> FALSE]
  ELSE simpleMakeMove(st, hist, cfg, u.stalemateAsDraw, p)

\* onChoose(p) of a render: its two early returns, then makeMove(p) of the
\* same render; ret tells whether the click set the state
onChoose(u, st, hist, cfg, p) ==
  IF st.winner # NULL \/ st.draw
  THEN [ret |-> FALSE, state |-> st, history |-> hist, bounce |-> FALSE]
  ELSE IF u.mode = "computer" /\ st.current = 1
  THEN [ret |-> FALSE, state |-> st, history |-> hist, bounce |-> FALSE]
  ELSE simpleMakeMove(st, hist, cfg, u.stalemateAsDraw, p)

\* a click on a vertex of the board: onChoose(p); a click that onChoose or
\* makeMove ignores sets no state and brings no render, so the timer of the
\* render before stays as it is
OnChoose(p) ==
  /\ \E r \in {onChoose(ui, state, history, config, p)} :
       /\ r.ret => Len(history) < MaxUIMoves
       /\ state' = r.state
       /\ history' = r.history
       /\ ui' = IF r.ret THEN computerTurnEffect(ui, config, r.state, r.history)
                ELSE ui
       /\ last' = [op |-> "onChoose", to |-> p, ret |-> r.ret, mode |-> ui.mode,
                   state |-> state, history |-> history, ui |-> ui]
  /\ UNCHANGED <<config, snapshot>>

\* the reset button: onClick={reset}
OnReset(starter) ==
  /\ state' = simpleInitialState(config, starter)
  /\ history' = <<>>
  /\ ui' = computerTurnEffect(ui, config, state', history')
  /\ last' = [op |-> "reset"]
  /\ UNCHANGED <<config, snapshot>>

\* handleModeChange(value)
HandleModeChange(value, starter) ==
  /\ value # ui.mode
  /\ state' = simpleInitialState(config, starter)
  /\ history' = <<>>
  /\ ui' = computerTurnEffect([ui EXCEPT !.mode = value], config, state', history')
  /\ last' = [op |-> "handleModeChange"]
  /\ UNCHANGED <<config, snapshot>>

\* handleDifficultyChange(value)
HandleDifficultyChange(value, starter) ==
  /\ value # ui.difficulty
  /\ state' = IF ui.mode = "computer" THEN simpleInitialState(config, starter)
              ELSE state
  /\ history' = IF ui.mode = "computer" THEN <<>> ELSE history
  /\ ui' = computerTurnEffect([ui EXCEPT !.difficulty = value], config,
                              state', history')
  /\ last' = [op |-> "handleDifficultyChange"]
  /\ UNCHANGED <<config, snapshot>>

\* handleBoardSizeChange(value): the render with the new config and
\* pendingReset runs the effect of the computer's turn on the state of the
\* old board, and the effect of pendingReset calls reset(); the render that
\* follows runs the effect of the computer's turn again
HandleBoardSizeChange(value, starter) ==
  /\ value # ui.boardSize
  /\ config' = presetConfig(value)
  /\ state' = simpleInitialState(config', starter)
  /\ history' = <<>>
  /\ ui' = computerTurnEffect(
              computerTurnEffect([ui EXCEPT !.boardSize = value],
                                 config', state, history),
              config', state', history')
  /\ last' = [op |-> "handleBoardSizeChange"]
  /\ UNCHANGED snapshot

\* a pending timer fires: chooseComputerMove on the SimState made of the
\* values the callback closes over, then makeMove of the same render; a
\* move that sets the state brings a render and its effects
TimerFires(timer) ==
  /\ timer \in ui.pending
  /\ Len(timer.history) < MaxUIMoves
  /\ \E decision \in chooseComputerMove(simOf(timer.state), timer.config,
                         optionsOf(timer.config, timer.difficulty,
                                   ui.stalemateAsDraw)).choices :
       \E r \in {simpleMakeMove(timer.state, timer.history, timer.config,
                                ui.stalemateAsDraw, decision.move)} :
           LET fired == [ui EXCEPT !.pending = @ \ {timer}]
           IN  /\ state' = r.state
               /\ history' = r.history
               /\ ui' = IF r.ret
                        THEN computerTurnEffect(fired, config, r.state, r.history)
                        ELSE fired
               /\ last' = [op |-> "timer", closure |-> timer, move |-> decision.move,
                           ret |-> r.ret, mode |-> ui.mode, config |-> config,
                           state |-> state, history |-> history]
  /\ UNCHANGED <<config, snapshot>>

NextUI ==
  \/ \E p \in Vertices(config) : OnChoose(p)
  \/ \E starter \in {0, 1} : OnReset(starter)
  \/ \E value \in {"human", "computer"}, starter \in {0, 1} :
        HandleModeChange(value, starter)
  \/ \E value \in Difficulties, starter \in {0, 1} :
        HandleDifficultyChange(value, starter)
  \/ \E value \in BoardSizes, starter \in {0, 1} :
        HandleBoardSizeChange(value, starter)
  \/ \E timer \in ui.pending : TimerFires(timer)

SpecUI == InitUI /\ [][NextUI]_vars

(* ---------------- the agent's turn on a board of 4 x 4 ------------------- *)

\* a game of the presentation layer's engine as the component plays it,
\* stalemateAsDraw false, on a board wide enough for a search of four plies
\* to meet a position again along another order of moves
InitCache ==
  /\ config = [width |-> 4, height |-> 4, goalWidth |-> defaultGoalWidth]
  /\ ui = [mounted |-> TRUE, stalemateAsDraw |-> FALSE]
  /\ history = <<>>
  /\ \E starter \in {0, 1} : state = simpleInitialState(config, starter)
  /\ last = [op |-> "new"]
  /\ snapshot = NoSnapshot

\* an accepted move of either player, in a game of at most MaxCacheMoves
CachePlay(to) ==
  /\ Len(history) < MaxCacheMoves
  /\ SearchPlay(to)

\* chooseComputerMove called when player 1 is to act
CacheChoose(difficulty) ==
  /\ state.current = 1
  /\ Choose(difficulty)

NextCache ==
  \/ \E to \in Vertices(config) : CachePlay(to)
  \/ \E difficulty \in Difficulties : CacheChoose(difficulty)

SpecCache == InitCache /\ [][NextCache]_vars

(* ---------------------- games played to their end ---------------------- *)

\* board geometries on which whole games are played
GameConfigs ==
  { [width |-> 2, height |-> 2, goalWidth |-> 2],
    [width |-> 2, height |-> 3, goalWidth |-> 1] }

\* new GameEngine(config)
InitGame ==
  /\ config \in GameConfigs
  /\ history = <<>>
  /\ state = initializeGame(config)
  /\ last = [op |-> "new", to |-> state.pos, ret |-> TRUE, bounce |-> FALSE,
             pre |-> state, preHistory |-> <<>>, preConfig |-> config]
  /\ snapshot = NoSnapshot
  /\ ui = NoUI

\* makeMove(to) with a target it accepts, at any length of the game
GameMove(to) ==
  /\ \E r \in {makeMove(state, history, config, to)} :
        /\ r.ret
        /\ state' = r.state
        /\ history' = r.history
        /\ last' = Call("makeMove", to, r.ret, r.bounce)
  /\ UNCHANGED <<config, snapshot, ui>>

NextGame == \E to \in Vertices(config) : GameMove(to)

\* the players keep moving while makeMove accepts a target
SpecGame == InitGame /\ [][NextGame]_vars /\ WF_vars(NextGame)

(* ------------------ vocabulary of the properties ----------------------- *)
(* Stated on coordinates and on the recorded history, not through the      *)
(* engine's own helpers.                                                   *)

InProgress(st) == st.winner = NULL /\ st.blockedLoser = NULL

Chebyshev(a, b) == Max(Abs(a.x - b.x), Abs(a.y - b.y))

OutOfBounds(q, cfg) == q \notin Vertices(cfg)

\* the segment a-b lies on one of the four boundary lines
AlongBorder(a, b, cfg) ==
  \/ a.x = b.x /\ a.x \in {0, cfg.width}
  \/ a.y = b.y /\ a.y \in {0, cfg.height}

\* some move of hist joined a and b, in either direction
Drawn(a, b, hist) ==
  \E i \in 1..Len(hist) : {hist[i].from, hist[i].to} = {a, b}

\* some segment of hist has v as an endpoint
Touched(v, hist) ==
  \E i \in 1..Len(hist) : hist[i].from = v \/ hist[i].to = v

OnBoundary(v, cfg) == v.x \in {0, cfg.width} \/ v.y \in {0, cfg.height}

IllegalTarget(p, q, hist, cfg) ==
  \/ OutOfBounds(q, cfg)
  \/ Chebyshev(p, q) # 1
  \/ AlongBorder(p, q, cfg)
  \/ Drawn(p, q, hist)

InGoal(q, cfg) == isGoal(q, cfg.width, cfg.height, cfg.goalWidth) # "NONE"

Accepted == last.op = "makeMove" /\ last.ret = TRUE

Untouched == state = last.pre /\ history = last.preHistory

(* ------------------------------ claims --------------------------------- *)

\* C1: makeMove in an in-progress state with a target that is out of bounds,
\* not adjacent to the token (its own vertex included), joined to it by a
\* segment along a border line, or joined by an already drawn segment returns
\* false and leaves the state and the history unchanged.
C1_InvalidMoveRejected ==
  ( /\ last.op = "makeMove"
    /\ InProgress(last.pre)
    /\ IllegalTarget(last.pre.pos, last.to, last.preHistory, last.preConfig) )
  => (last.ret = FALSE /\ Untouched)

\* a rejected attempt to redraw a segment of the history, in bounds and adjacent
C1_Witness ==
  /\ last.op = "makeMove"
  /\ InProgress(last.pre)
  /\ Drawn(last.pre.pos, last.to, last.preHistory)
  /\ last.ret = FALSE
  /\ Untouched

\* C2: terminal states are sinks for makeMove: when winner or blockedLoser is
\* set, makeMove returns false for every target and changes nothing.
C2_TerminalSink ==
  (last.op = "makeMove" /\ ~InProgress(last.pre))
  => (last.ret = FALSE /\ Untouched)

\* a rejected move from a won position to a target that is otherwise legal
C2_Witness ==
  /\ last.op = "makeMove"
  /\ last.pre.winner # NULL
  /\ ~IllegalTarget(last.pre.pos, last.to, last.preHistory, last.preConfig)
  /\ last.ret = FALSE
  /\ Untouched

\* C3: legality agreement: for every in-bounds position p and the drawn
\* segments S, computeValidMoves(p, S) lists exactly the vertices q accepted by
\* isValidMove({from: p, to: q}, p, S), and these are exactly the targets
\* makeMove accepts from the token position of an unfinished game.
C3_LegalityAgreement ==
  /\ \A p \in Vertices(config) :
       Range(computeValidMoves(p, state.edges, config.width, config.height))
         = { q \in Targets(config) :
               isValidMove([from |-> p, to |-> q], p, state.edges,
                           config.width, config.height) }
  /\ (last.op = "makeMove" /\ last.pre.winner = NULL)
       => (last.ret <=>
             last.to \in Range(computeValidMoves(last.pre.pos, last.pre.edges,
                                 last.preConfig.width, last.preConfig.height)))

\* after an accepted move some vertex has lost a legal move to a drawn segment
C3_Witness ==
  /\ Accepted
  /\ state.edges # {}
  /\ \E p \in Vertices(config) :
       /\ computeValidMoves(p, state.edges, config.width, config.height) # <<>>
       /\ Len(computeValidMoves(p, state.edges, config.width, config.height))
            < Len(computeValidMoves(p, {}, config.width, config.height))

\* C4: bounce determinism: an accepted move bounces iff its target lies on
\* the board boundary or a segment drawn before the move is incident to the
\* target.
C4_BounceDeterminism ==
  Accepted =>
    (last.bounce <=> ( \/ OnBoundary(last.to, last.preConfig)
                       \/ Touched(last.to, last.preHistory) ))

\* an accepted move onto an interior vertex that already carries a segment
C4_Witness ==
  /\ Accepted
  /\ ~OnBoundary(last.to, last.preConfig)
  /\ Touched(last.to, last.preHistory)
  /\ last.bounce

\* an accepted move onto an untouched interior vertex, which does not bounce
C4_WitnessNoBounce ==
  /\ Accepted
  /\ ~OnBoundary(last.to, last.preConfig)
  /\ ~Touched(last.to, last.preHistory)
  /\ ~last.bounce

\* C5: turn invariant: after an accepted move outside the goal regions, a
\* bounce keeps the active player and sets extraTurn, a non-bounce flips the
\* active player once and clears extraTurn; makeMove changes the active player
\* in no other case.
C5_TurnInvariant ==
  last.op = "makeMove" =>
    LET bounced == \/ OnBoundary(last.to, last.preConfig)
                   \/ Touched(last.to, last.preHistory)
    IN  IF last.ret /\ ~InGoal(last.to, last.preConfig)
        THEN IF bounced
             THEN state.current = last.pre.current /\ state.extraTurn = TRUE
             ELSE state.current = 1 - last.pre.current /\ state.extraTurn = FALSE
        ELSE state.current = last.pre.current

\* player 1 makes a non-bounce move and the turn passes back to player 0
C5_Witness ==
  /\ Accepted
  /\ ~InGoal(last.to, last.preConfig)
  /\ ~last.bounce
  /\ last.pre.current = 1
  /\ state.current = 0
  /\ state.extraTurn = FALSE

\* C6: goal priority: an accepted move into a goal region ends the game as a
\* win, with blockedLoser null, extraTurn false and no legal moves, although
\* the target is on the boundary and would bounce.
C6_GoalPriority ==
  (Accepted /\ InGoal(last.to, last.preConfig)) =>
    /\ state.winner # NULL
    /\ state.blockedLoser = NULL
    /\ state.extraTurn = FALSE
    /\ state.validMoves = <<>>
    /\ OnBoundary(last.to, last.preConfig)

\* a goal scored during an extra turn, by a move that counts as a bounce
C6_Witness ==
  /\ Accepted
  /\ InGoal(last.to, last.preConfig)
  /\ last.bounce
  /\ last.pre.extraTurn = TRUE
  /\ state.winner # NULL
  /\ state.extraTurn = FALSE

C8_WinnerBySide ==
  Accepted =>
    LET side == isGoal(last.to, last.preConfig.width, last.preConfig.height,
                       last.preConfig.goalWidth)
    IN  /\ side = "LEFT" => state.winner = 0
        /\ side = "RIGHT" => state.winner = 1

\* C9: blocked detection: when an accepted move outside the goal regions
\* leaves the token with no legal move, that very move sets blockedLoser to
\* the active player after the turn transition, with winner null and no legal
\* moves listed.
C9_BlockedDetection ==
  ( /\ Accepted
    /\ ~InGoal(last.to, last.preConfig)
    /\ \A q \in Vertices(config) : IllegalTarget(state.pos, q, history, config) )
  => /\ state.blockedLoser = state.current
     /\ state.blockedLoser =
          (IF OnBoundary(last.to, last.preConfig) \/ Touched(last.to, last.preHistory)
           THEN last.pre.current ELSE 1 - last.pre.current)
     /\ state.winner = NULL
     /\ state.validMoves = <<>>

\* player 1 is blocked by the move just made
C9_Witness ==
  /\ Accepted
  /\ ~InGoal(last.to, last.preConfig)
  /\ \A q \in Vertices(config) : IllegalTarget(state.pos, q, history, config)
  /\ state.blockedLoser = 1
  /\ last.pre.blockedLoser = NULL

\* C10: replay idempotence: replaying the recorded history from the initial
\* state with simulateHistory yields exactly the engine's current state.
C10_ReplayIdempotence ==
  simulateHistory(history, config) = state

\* an accepted move after at least two others, replayed to the same state
C10_Witness ==
  /\ Accepted
  /\ Len(history) >= 3
  /\ state.extraTurn = TRUE
  /\ simulateHistory(history, config) = state

\* C11: undo round trip: for every target makeMove accepts in the current
\* state, makeMove followed by undo returns true and restores exactly the
\* state and the history from before the move.
C11_UndoRoundTrip ==
  \A to \in Targets(config) :
    LET r == makeMove(state, history, config, to)
        u == undo(r.state, r.history, config)
    IN  r.ret => (u.ret = TRUE /\ u.state = state /\ u.history = history)

\* an undo that has just taken back a game-ending goal and restored the state
\* from which makeMove produces that goal again
C11_Witness ==
  /\ last.op = "undo"
  /\ last.ret = TRUE
  /\ last.pre.winner # NULL
  /\ LET m == last.preHistory[Len(last.preHistory)]
         r == makeMove(state, history, config, m.to)
     IN  r.ret /\ r.state = last.pre /\ r.history = last.preHistory

\* C12: undo returns false exactly when the history is empty and then changes
\* nothing; with a non-empty history it returns true and removes exactly the
\* last move of the history.
C12_UndoResult ==
  last.op = "undo" =>
    /\ (last.ret = FALSE) <=> (last.preHistory = <<>>)
    /\ last.preHistory = <<>> => Untouched
    /\ last.preHistory # <<>> =>
         /\ last.ret = TRUE
         /\ Len(history) = Len(last.preHistory) - 1
         /\ \A i \in 1..Len(history) : history[i] = last.preHistory[i]

\* an undo of the move that won the game
C12_Witness ==
  /\ last.op = "undo"
  /\ last.ret = TRUE
  /\ last.pre.winner # NULL
  /\ Len(history) = Len(last.preHistory) - 1

\* an undo on an empty history
C12_WitnessEmpty ==
  /\ last.op = "undo"
  /\ last.ret = FALSE
  /\ last.preHistory = <<>>
  /\ Untouched

\* C13: after reset() or updateConfig(c) the engine is in the initial state of
\* the current configuration: empty history, no segments, token at
\* (floor(width/2), floor(height/2)), player 0 to act, extraTurn false, no
\* outcome, and validMoves the legal moves from the center.
C13_ResetInitial ==
  last.op \in {"reset", "updateConfig"} =>
    LET center == Pos(config.width \div 2, config.height \div 2)
    IN  /\ history = <<>>
        /\ state.edges = {}
        /\ state.pos = center
        /\ state.current = 0
        /\ state.extraTurn = FALSE
        /\ state.winner = NULL
        /\ state.blockedLoser = NULL
        /\ Range(state.validMoves) =
             { q \in Vertices(config) : ~IllegalTarget(center, q, <<>>, config) }
        /\ Len(state.validMoves) = Cardinality(Range(state.validMoves))

\* a reset of a finished game with a non-empty history
C13_Witness ==
  /\ last.op = "reset"
  /\ last.preHistory # <<>>
  /\ ~InProgress(last.pre)
  /\ history = <<>>
  /\ state.edges = {}

\* an updateConfig that changes the geometry of a game under way
C13_WitnessConfig ==
  /\ last.op = "updateConfig"
  /\ last.preConfig # config
  /\ last.preHistory # <<>>
  /\ history = <<>>

\* reading a segment key back: the text before and after the first
\* occurrence of the code unit c
RECURSIVE IndexOf(_, _, _)
IndexOf(str, c, i) ==
  IF i > Len(str) THEN 0
  ELSE IF str[i] = c THEN i
  ELSE IndexOf(str, c, i + 1)

Before(str, c) == SubSeq(str, 1, IndexOf(str, c, 1) - 1)
After(str, c) == SubSeq(str, IndexOf(str, c, 1) + 1, Len(str))

RECURSIVE ReadNat(_, _)
ReadNat(str, acc) ==
  IF str = <<>> THEN acc ELSE ReadNat(Tail(str), 10 * acc + (Head(str) - 48))

ReadInt(str) ==
  IF str # <<>> /\ Head(str) = 45 THEN 0 - ReadNat(Tail(str), 0) ELSE ReadNat(str, 0)

ReadPos(str) == Pos(ReadInt(Before(str, 44)), ReadInt(After(str, 44)))

\* the two endpoints written in a segment key
KeyEnds(k) == <<ReadPos(Before(k, 124)), ReadPos(After(k, 124))>>

\* C15: the token position is a grid vertex within bounds, and every drawn
\* segment joins two adjacent in-bounds vertices and does not lie along any
\* of the four boundary lines.
C15_GeometryInvariant ==
  /\ state.pos \in Vertices(config)
  /\ \A k \in state.edges :
       LET a == KeyEnds(k)[1]
           b == KeyEnds(k)[2]
       IN  /\ a \in Vertices(config)
           /\ b \in Vertices(config)
           /\ Chebyshev(a, b) = 1
           /\ ~AlongBorder(a, b, config)

\* a drawn diagonal between two boundary vertices, the token on the boundary
C15_Witness ==
  /\ Accepted
  /\ OnBoundary(state.pos, config)
  /\ \E k \in state.edges :
       /\ OnBoundary(KeyEnds(k)[1], config)
       /\ OnBoundary(KeyEnds(k)[2], config)
       /\ ~AlongBorder(KeyEnds(k)[1], KeyEnds(k)[2], config)

\* C16: the cached legal-move set is current after the constructor and after
\* every call: empty when winner is set, and otherwise, as a set, the legal
\* moves computeValidMoves gives for the current position and segments.
C16_ValidMovesCurrent ==
  IF state.winner # NULL
  THEN state.validMoves = <<>>
  ELSE Range(state.validMoves) =
         Range(computeValidMoves(state.pos, state.edges, config.width, config.height))

\* an undo of a winning move brings the legal moves of the position back
C16_Witness ==
  /\ last.op = "undo"
  /\ last.ret = TRUE
  /\ last.pre.winner # NULL
  /\ last.pre.validMoves = <<>>
  /\ state.winner = NULL
  /\ state.validMoves # <<>>
  /\ Len(state.validMoves) < Len(computeValidMoves(state.pos, {}, config.width, config.height))

\* C14: getState() returns a read-only copy: what a snapshot returned earlier
\* reads (segments, position, player, extraTurn, outcome, legal moves) is not
\* changed by a later makeMove, undo, reset or updateConfig.
C14_SnapshotUnchanged ==
  snapshot.held => snapshot.now = snapshot.returned

\* the fields of a snapshot other than the segment set keep what they read
C14_SnapshotScalarsUnchanged ==
  snapshot.held =>
    \A f \in {"pos", "current", "extraTurn", "winner", "blockedLoser", "validMoves"} :
      snapshot.now[f] = snapshot.returned[f]

\* C17: for width 10, height 8, goalWidth 2 the goal rows are exactly {3, 4}:
\* isGoal reports LEFT for (0,3) and (0,4), RIGHT for (10,3) and (10,4), and
\* no goal for (0,2), (0,5), (10,2) and (10,5).
C17_DefaultGoalRows ==
  config = DEFAULT_CONFIG =>
    /\ last.op = "goalYRange" => Range(last.ret) = {3, 4}
    /\ last.op = "isGoal" =>
         /\ last.to \in {Pos(0, 3), Pos(0, 4)} => last.ret = "LEFT"
         /\ last.to \in {Pos(10, 3), Pos(10, 4)} => last.ret = "RIGHT"
         /\ last.to \in {Pos(0, 2), Pos(0, 5), Pos(10, 2), Pos(10, 5)} => last.ret = "NONE"

\* C18: for every height >= 2 and 1 <= goalWidth <= height-1, goalYRange
\* returns a contiguous span of exactly goalWidth rows, each within
\* 1..height-1.
C18_GoalSpan ==
  last.op = "goalYRange" =>
    /\ Len(last.ret) = config.goalWidth
    /\ \A i \in 1..Len(last.ret) : last.ret[i] >= 1 /\ last.ret[i] <= config.height - 1
    /\ \A i \in 1..(Len(last.ret) - 1) : last.ret[i + 1] = last.ret[i] + 1

\* C19: keyEdge is a canonical undirected identity: keyEdge(a,b) = keyEdge(b,a),
\* and keyEdge(a,b) = keyEdge(c,d) only if {a,b} = {c,d}.
C19_KeyEdgeCanonical ==
  last.op = "keyEdge" =>
    /\ keyEdge(last.b, last.a) = last.ret
    /\ \A c \in KeyVertices, d \in KeyVertices :
         keyEdge(c, d) = last.ret => {c, d} = {last.a, last.b}

\* the key of the segment from (10,0) to (9,0): the two-digit endpoint is
\* written first, and the reverse direction gives the same key
C19_Witness ==
  /\ last.op = "keyEdge"
  /\ last.a = Pos(10, 0)
  /\ last.b = Pos(9, 0)
  /\ last.ret = PosStr(last.a) \o <<124>> \o PosStr(last.b)
  /\ KeyEnds(last.ret) = <<last.a, last.b>>

\* moves that cannot follow the history hist, whose replay leaves the token
\* at pos: from pos to an illegal target, or from another vertex
CorruptMoves(pos, hist, cfg) ==
  { [from |-> pos, to |-> q] : q \in { t \in Targets(cfg) : IllegalTarget(pos, t, hist, cfg) } }
  \cup
  { m \in [from : Vertices(cfg) \ {pos}, to : Vertices(cfg)] : Chebyshev(m.from, m.to) = 1 }

\* what may follow the corrupt move in the list: nothing, or a move that
\* would be legal right after hist
Tails(pos, hist, cfg) ==
  {<<>>} \cup
  { <<[from |-> pos, to |-> q]>> : q \in { t \in Vertices(cfg) : ~IllegalTarget(pos, t, hist, cfg) } }

\* C20: replay of a corrupt history: simulateHistory stops at the first move
\* that fails the legality predicate or does not start at the replay's token
\* position and returns exactly the state reached by the valid prefix; the
\* moves after it are ignored, legal or not.
C20_CorruptReplay ==
  \A bad \in CorruptMoves(state.pos, history, config) :
    \A rest \in Tails(state.pos, history, config) :
      simulateHistory(history \o <<bad>> \o rest, config) = state

\* a game under way with drawn segments, where a list continued by a move from
\* the wrong vertex and then by a legal move replays to the state before both
C20_Witness ==
  /\ Accepted
  /\ InProgress(state)
  /\ Len(history) >= 2
  /\ \E bad \in CorruptMoves(state.pos, history, config) :
       \E rest \in Tails(state.pos, history, config) :
         /\ bad.from # state.pos
         /\ rest # <<>>
         /\ simulateHistory(history \o <<bad>> \o rest, config) = state
         /\ simulateHistory(history \o rest, config) # state
(* ------------- claims about the presentation layer's engine ------------ *)

InSimpleGoal(q, cfg) == simpleIsGoal(q, cfg.width, cfg.height, cfg.goalWidth) # "NONE"

\* the engine's state names no outcome yet
SimpleInProgress(st) == st.winner = NULL /\ ~st.draw /\ st.blockedLoser = NULL

\* the token has no legal move left
NoLegalMove ==
  \A q \in Targets(config) : IllegalTarget(state.pos, q, history, config)

\* C21: stalemate policy of useSimpleGameEngine: an accepted non-goal move
\* that leaves no legal move sets draw (winner and blockedLoser null) under
\* stalemateAsDraw, and otherwise blockedLoser = the player about to move
\* (draw false, winner null); in both cases validMoves is empty and extraTurn
\* false, and a makeMove called on such a state is ignored.
C21_StalematePolicy ==
  /\ (Accepted /\ ~InSimpleGoal(last.to, config) /\ NoLegalMove)
       => /\ state.validMoves = <<>>
          /\ state.extraTurn = FALSE
          /\ state.winner = NULL
          /\ IF ui.stalemateAsDraw
             THEN state.draw = TRUE /\ state.blockedLoser = NULL
             ELSE /\ state.draw = FALSE
                  /\ state.blockedLoser =
                       (IF OnBoundary(last.to, config) \/ Touched(last.to, last.preHistory)
                        THEN last.pre.current ELSE 1 - last.pre.current)
  /\ (last.op = "makeMove" /\ (last.pre.draw \/ last.pre.blockedLoser # NULL))
       => (last.ret = FALSE /\ Untouched)

\* a makeMove has just been ignored by a state whose player was left without
\* a legal move, under the policy that names a loser
C21_Witness ==
  /\ last.op = "makeMove"
  /\ last.pre.blockedLoser # NULL
  /\ ~ui.stalemateAsDraw
  /\ last.ret = FALSE

\* the same under the policy that calls a draw
C21_WitnessDraw ==
  /\ last.op = "makeMove"
  /\ last.pre.draw
  /\ ui.stalemateAsDraw
  /\ last.ret = FALSE

\* C25: simulateMove and useSimpleGameEngine.makeMove agree: from every
\* in-progress state and for every legal move, under the same stalemate
\* policy, they give the same position, segments, active player, extraTurn,
\* legal moves and outcome, a blocked loser p reading as winner 1-p.
C25_SimulationAgreement ==
  SimpleInProgress(state) =>
    \A to \in Targets(config) :
      LET r == simpleMakeMove(state, history, config, ui.stalemateAsDraw, to)
          n == simulateMove(simOf(state), to, config, ui.stalemateAsDraw)
      IN  r.ret =>
            /\ n.pos = r.state.pos
            /\ n.edges = r.state.edges
            /\ n.current = r.state.current
            /\ n.extraTurn = r.state.extraTurn
            /\ n.validMoves = r.state.validMoves
            /\ n.draw = r.state.draw
            /\ n.winner = (IF r.state.blockedLoser # NULL
                           THEN 1 - r.state.blockedLoser ELSE r.state.winner)

\* an in-progress state reached by play, one of whose legal moves blocks the
\* next player and another of which scores
C25_Witness ==
  /\ Accepted
  /\ SimpleInProgress(state)
  /\ ~ui.stalemateAsDraw
  /\ \E to \in Range(state.validMoves) :
       simpleMakeMove(state, history, config, FALSE, to).state.blockedLoser # NULL
  /\ \E to \in Range(state.validMoves) :
       simpleMakeMove(state, history, config, FALSE, to).state.winner # NULL

(* ---------------- claims about the decision engine --------------------- *)

SetMax(S) == CHOOSE x \in S : \A y \in S : y <= x
SetMin(S) == CHOOSE x \in S : \A y \in S : x <= y

\* the moves minimax searches from a state
SearchMoves(sim, cfg) ==
  IF sim.validMoves # <<>> THEN Range(sim.validMoves)
  ELSE Range(computeValidMoves(sim.pos, sim.edges, cfg.width, cfg.height))

\* the value of the game tree of the given depth below sim, every branch
\* searched: the maximum over the moves when player 1 is to move, the minimum
\* when player 0 is
RECURSIVE Exhaustive(_, _, _, _, _)
Exhaustive(sim, depth, cfg, goalCenter, stalemateAsDraw) ==
  IF depth = 0 \/ sim.winner # NULL \/ sim.draw
  THEN evaluateState(sim, cfg, goalCenter)
  ELSE IF SearchMoves(sim, cfg) = {}
  THEN (IF stalemateAsDraw THEN 0
        ELSE IF sim.current = 1 THEN LOSS_SCORE ELSE WIN_SCORE)
  ELSE LET values == { Exhaustive(simulateMove(sim, m, cfg, stalemateAsDraw),
                                  depth - 1, cfg, goalCenter, stalemateAsDraw) :
                         m \in SearchMoves(sim, cfg) }
       IN  IF sim.current = 1 THEN SetMax(values) ELSE SetMin(values)

\* the number of positions of that game tree
RECURSIVE TreeSize(_, _, _, _)
TreeSize(sim, depth, cfg, stalemateAsDraw) ==
  IF depth = 0 \/ sim.winner # NULL \/ sim.draw THEN 1
  ELSE LET moves == IF sim.validMoves # <<>> THEN sim.validMoves
                    ELSE computeValidMoves(sim.pos, sim.edges, cfg.width, cfg.height)
       IN  1 + SumSeq([i \in 1..Len(moves) |->
                        TreeSize(simulateMove(sim, moves[i], cfg, stalemateAsDraw),
                                 depth - 1, cfg, stalemateAsDraw)])

\* C22: alpha-beta equivalence: minimax called with the full window, with
\* extensions disabled and no cache, returns the value of the exhaustive
\* minimax of the same depth over the same game tree.
C22_AlphaBetaEquivalence ==
  (last.op = "minimax" /\ ~last.allowQuiescence) =>
    last.ret.value =
      Exhaustive(last.sim, last.depth, config,
                 computeGoalCenter(config.height, config.goalWidth),
                 ui.stalemateAsDraw)

\* a search of the greatest depth that pruned: it made fewer calls than the
\* game tree has positions
C22_Witness ==
  /\ last.op = "minimax"
  /\ ~last.allowQuiescence
  /\ last.depth = MaxDepth
  /\ last.ret.nodes < TreeSize(last.sim, last.depth, config, ui.stalemateAsDraw)

\* C23: for every state with a legal move and every difficulty tier,
\* chooseComputerMove returns a move that is one of the state's validMoves,
\* and makeMove of the rule engine accepts it.
C23_ChosenMoveLegal ==
  last.op = "chooseComputerMove" =>
    /\ last.ret.choices # {}
    /\ \A c \in last.ret.choices :
         /\ c.move \in Range(last.sim.validMoves)
         /\ simpleMakeMove([state EXCEPT !.edges = last.sim.edges], history,
                           config, ui.stalemateAsDraw, c.move).ret

\* a search tier chose a move other than the first legal one, in a position
\* where a segment to a neighbouring vertex is already drawn
C23_Witness ==
  /\ last.op = "chooseComputerMove"
  /\ last.difficulty = "hard"
  /\ Len(last.sim.validMoves) >= 2
  /\ \E c \in last.ret.choices : c.move # last.sim.validMoves[1]
  /\ \E q \in Vertices(config) :
       /\ isAdjacent(last.sim.pos, q)
       /\ keyEdge(last.sim.pos, q) \in last.sim.edges

\* C24: the search is read-only: after minimax or chooseComputerMove the Set
\* of segments of the SimState given holds what it held before the call, and
\* so does the engine's state whose Set was passed in (nothing else of either
\* is ever assigned); simulateMove leaves the SimState it is given as it was,
\* for every legal move of it.
C24_SearchReadOnly ==
  /\ last.op \in {"minimax", "minimaxCached", "chooseComputerMove"} =>
       /\ last.ret.given = last.sim.edges
       /\ state.edges = last.sim.edges
       /\ simOf(state) = last.sim
  /\ \A move \in Range(state.validMoves) :
       simulateMoveGiven(simOf(state), move) = simOf(state)

\* a search of the hard tier over a position with several legal moves and
\* segments drawn, which went at least two plies below a candidate
C24_Witness ==
  /\ last.op = "chooseComputerMove"
  /\ last.difficulty = "hard"
  /\ Len(last.sim.validMoves) >= 2
  /\ last.sim.edges # {}
  /\ last.ret.plies >= 2

\* C28: the search is bounded by depth: minimax called with depth d explores
\* at most d + 1 plies below its root (at most d with extensions disabled),
\* and makes no more calls than twice the positions of the game tree of
\* depth d + 1; chooseComputerMove, which searches depth searchDepth - 1
\* below a candidate, goes at most searchDepth plies below it.
C28_SearchBounded ==
  /\ last.op = "minimax" =>
       /\ last.ret.plies <= last.depth + 1
       /\ ~last.allowQuiescence => last.ret.plies <= last.depth
       /\ last.ret.nodes <=
            2 * TreeSize(last.sim, last.depth + 1, config, ui.stalemateAsDraw)
  /\ last.op = "chooseComputerMove" =>
       last.ret.plies <=
         difficultySettings(last.difficulty, Len(last.sim.validMoves)).searchDepth

\* a search of the greatest depth whose quiescence extension was taken: it
\* went one ply below its depth
C28_Witness ==
  /\ last.op = "minimax"
  /\ last.allowQuiescence
  /\ last.depth = MaxDepth
  /\ last.ret.plies = last.depth + 1

\* C29: a transposition-cache entry is reused only if it was stored for a
\* depth greater than or equal to the requested depth; every entry found
\* and passed over was stored for a shallower depth than requested, and the
\* query is then searched: a state with a legal move and no result gets
\* further calls of minimax.
C29_CacheDepth ==
  last.op \in {"chooseComputerMove", "minimaxCached"} =>
    /\ \A h \in last.ret.hits : h[1] >= h[2]
    /\ \A h \in last.ret.stale : h[1] < h[2]
    /\ (/\ last.op = "minimaxCached"
        /\ last.stored < last.depth
        /\ last.sim.validMoves # <<>>
        /\ last.sim.winner = NULL
        /\ ~last.sim.draw) =>
          /\ <<last.stored, last.depth>> \in last.ret.stale
          /\ last.ret.nodes > 1
          /\ last.ret.cache.map[buildStateKey(last.sim)].depth = last.depth

\* a query deeper than the search that filled the cache: the entry of the
\* root was passed over and the state searched again, and within that search
\* an entry stored for the requested depth was reused
C29_Witness ==
  /\ last.op = "minimaxCached"
  /\ last.stored < last.depth
  /\ <<last.stored, last.depth>> \in last.ret.stale
  /\ last.ret.nodes > 1
  /\ last.ret.hits # {}

\* a query shallower than the search that filled the cache: the entry stored
\* for the deeper search was reused
C29_WitnessDeeper ==
  /\ last.op = "minimaxCached"
  /\ \E h \in last.ret.hits : h[1] > h[2]

\* the place of the returned candidate among the ordered candidates
ChosenIndex ==
  CHOOSE i \in 1..Len(last.ret.ordered) :
    last.ret.ordered[i] \in last.ret.choices

C26_WitnessCleared ==
  /\ last.op = "timer"
  /\ last.config # presetConfig("medium")
  /\ last.history = <<>>

(* ------------------ the engine's invariants, C31 to C35 ----------------- *)

\* C31: in every reachable GameEngine state the history is a trail that
\* matches the drawn segments: the first move starts at the board centre,
\* each move starts where the one before ended, the last move ends at the
\* token, the drawn segments are exactly the segment keys of the history's
\* moves, and there are as many drawn segments as moves (no segment is drawn
\* twice, in either direction).
C31_HistoryTrail ==
  /\ Len(history) > 0 =>
        /\ history[1].from = Pos(config.width \div 2, config.height \div 2)
        /\ history[Len(history)].to = state.pos
  /\ \A i \in 1..(Len(history) - 1) : history[i + 1].from = history[i].to
  /\ state.edges = { keyEdge(history[i].from, history[i].to) : i \in 1..Len(history) }
  /\ Cardinality(state.edges) = Len(history)
  /\ \A i, j \in 1..Len(history) :
        i # j => {history[i].from, history[i].to} # {history[j].from, history[j].to}

\* a trail of three segments that comes back to a vertex it has visited
C31_Witness ==
  /\ Accepted
  /\ Len(history) = MaxMoves
  /\ Cardinality(state.edges) = Len(history)
  /\ \E i \in 1..Len(history) : history[i].from = state.pos

\* a trail shortened by undo: the token is back at the end of the move before
C31_WitnessUndo ==
  /\ last.op = "undo"
  /\ last.ret = TRUE
  /\ Len(history) >= 2
  /\ state.pos = history[Len(history)].to
  /\ Cardinality(state.edges) = Len(history)

\* move i of hist bounced: its target is on the boundary or carried a
\* segment of the moves before it
BouncedAt(hist, i, cfg) ==
  OnBoundary(hist[i].to, cfg) \/ Touched(hist[i].to, SubSeq(hist, 1, i - 1))

\* the player who made move i of hist, player 0 having made the first: the
\* turn passed once for every move before it that did not bounce
MoverAt(hist, i, cfg) ==
  Cardinality({ j \in 1..(i - 1) : ~BouncedAt(hist, j, cfg) }) % 2

\* C32: a non-bounce move never blocks: in every reachable GameEngine state
\* with blockedLoser set, the last move of the history was a bounce and
\* blockedLoser is the player who made it.
C32_BlockedByOwnBounce ==
  state.blockedLoser # NULL =>
    /\ Len(history) > 0
    /\ BouncedAt(history, Len(history), config)
    /\ state.blockedLoser = MoverAt(history, Len(history), config)

\* player 1 has moved into a dead end and is the blocked loser
C32_Witness ==
  /\ Accepted
  /\ state.blockedLoser = 1
  /\ last.pre.current = 1
  /\ last.pre.blockedLoser = NULL
  /\ last.bounce
  /\ MoverAt(history, Len(history), config) = 1

\* C33: in every reachable terminal state of GameEngine (winner set or
\* blockedLoser set) the extraTurn flag is false: no extra turn is left
\* pending once the game is over.
C33_TerminalNoExtraTurn ==
  ~InProgress(state) => state.extraTurn = FALSE

\* the same statement of the presentation layer's engine, whose no-moves
\* branch and goal branch both set extraTurn to false
C33_SimpleTerminalNoExtraTurn ==
  ~SimpleInProgress(state) => state.extraTurn = FALSE

\* the part the core engine keeps: a won game has no extra turn pending
C33_WonNoExtraTurn ==
  state.winner # NULL => state.extraTurn = FALSE

\* C34: no deadlock: on a board of width and height at least 2, in every
\* reachable GameEngine state that is in progress (winner null and
\* blockedLoser null) validMoves is not empty and makeMove accepts at least
\* one target.
C34_NoDeadlock ==
  (config.width >= 2 /\ config.height >= 2 /\ InProgress(state)) =>
    /\ state.validMoves # <<>>
    /\ \E q \in Vertices(config) : makeMove(state, history, config, q).ret

\* a game in progress two or more moves long whose last move bounced and
\* left the token two ways out, each of which makeMove accepts
C34_Witness ==
  /\ Accepted
  /\ last.bounce
  /\ Len(history) >= 2
  /\ InProgress(state)
  /\ Len(state.validMoves) = 2
  /\ \A i \in 1..2 : makeMove(state, history, config, state.validMoves[i]).ret

\* a blocked game brought back into progress by undo
C34_WitnessUndo ==
  /\ last.op = "undo"
  /\ last.pre.blockedLoser # NULL
  /\ InProgress(state)
  /\ state.validMoves # <<>>

\* the segments between adjacent vertices of the board that do not run
\* along a border line
NonBorderSegments(cfg) ==
  { pair \in { {a, b} : a \in Vertices(cfg), b \in Vertices(cfg) } :
      \E a \in pair : \E b \in pair :
         Chebyshev(a, b) = 1 /\ ~AlongBorder(a, b, cfg) }

\* C35: every game ends: in a run of GameEngine without undo, reset or
\* updateConfig the number of accepted moves never exceeds the number of
\* adjacent non-border segments of the board, and if the players keep making
\* accepted moves while the game is in progress the engine eventually reaches
\* a terminal state (winner set or blockedLoser set).
C35_EveryGameEnds ==
  /\ [](Len(history) <= Cardinality(NonBorderSegments(config)))
  /\ <>(~InProgress(state))

\* a game that lasted six moves or more before it ended
C35_Witness ==
  /\ Accepted
  /\ ~InProgress(state)
  /\ Len(history) >= 6

(* ------------- claims about the decision engine, C36 and C38 ------------ *)

\* the value minimax returns for the successor state of a candidate when it
\* is called as chooseComputerMove calls it, but without any cache
UncachedValue(analysis, difficulty, cfg, stalemateAsDraw) ==
  minimax(analysis.nextState,
          difficultySettings(difficulty, 1).searchDepth - 1, cfg,
          computeGoalCenter(cfg.height, cfg.goalWidth), stalemateAsDraw,
          0 - Infinity, Infinity, TRUE, NoCache).value

\* C36: the transposition cache does not change search results: within one
\* chooseComputerMove invocation, for every candidate's successor state,
\* minimax run with the shared transposition table returns the same value as
\* minimax run on that state with the same depth and window without a cache
\* (the total score of the candidate is its one-ply score plus depthWeight
\* times that value).
C36_CacheTransparent ==
  (last.op = "chooseComputerMove" /\ last.difficulty # "easy") =>
    \A i \in 1..Len(last.ret.ordered) :
      LET analysis == last.ret.ordered[i]
      IN  (analysis.nextState.winner = NULL /\ ~analysis.nextState.draw) =>
            last.ret.totals[i] =
                100 * analysis.score
              + difficultySettings(last.difficulty, 1).depthWeight
                  * UncachedValue(analysis, last.difficulty, config,
                                  ui.stalemateAsDraw)

\* C38: the agent never misses an immediate win: whenever at least one
\* legal move of the agent (player 1) lands in the RIGHT goal region,
\* chooseComputerMove returns, at every difficulty tier and for every outcome
\* of the easy tier's random perturbation, a move whose successor state has
\* winner = 1, in the simulation and in the rule engine alike.
C38_TakesImmediateWin ==
  ( /\ last.op = "chooseComputerMove"
    /\ last.sim.current = 1
    /\ \E i \in 1..Len(last.sim.validMoves) :
         last.sim.validMoves[i].x = config.width
           /\ InSimpleGoal(last.sim.validMoves[i], config) )
  => \A c \in last.ret.choices :
       /\ c.nextState.winner = 1
       /\ simpleMakeMove([state EXCEPT !.edges = last.sim.edges], history,
                         config, ui.stalemateAsDraw, c.move).state.winner = 1

\* the easy tier, with the RIGHT goal one move away and other moves at hand,
\* takes the goal
C38_Witness ==
  /\ last.op = "chooseComputerMove"
  /\ last.difficulty = "easy"
  /\ last.sim.current = 1
  /\ Len(last.sim.validMoves) >= 3
  /\ \E i \in 1..Len(last.sim.validMoves) :
       last.sim.validMoves[i].x = config.width
         /\ InSimpleGoal(last.sim.validMoves[i], config)
  /\ \E i \in 1..Len(last.sim.validMoves) :
       ~InSimpleGoal(last.sim.validMoves[i], config)
  /\ \A c \in last.ret.choices :
       c.move.x = config.width /\ InSimpleGoal(c.move, config)

\* a search tier does the same
C38_WitnessSearch ==
  /\ last.op = "chooseComputerMove"
  /\ last.difficulty = "hard"
  /\ last.sim.current = 1
  /\ \E i \in 1..Len(last.sim.validMoves) :
       last.sim.validMoves[i].x = config.width
         /\ InSimpleGoal(last.sim.validMoves[i], config)
  /\ \E i \in 1..Len(last.sim.validMoves) :
       ~InSimpleGoal(last.sim.validMoves[i], config)
  /\ \A c \in last.ret.choices : c.nextState.winner = 1

(* ---------------- the two rule engines side by side, C37 ---------------- *)

\* the presentation layer's engine, stalemateAsDraw false and player 0 to
\* begin, after makeMove has been called on it with the targets of the moves
\* of hist one after the other: its state and its history
RECURSIVE SimpleAfter(_, _)
SimpleAfter(hist, cfg) ==
  IF hist = <<>>
  THEN [state |-> simpleInitialState(cfg, 0), history |-> <<>>]
  ELSE The({ [state |-> r.state, history |-> r.history] :
               r \in { simpleMakeMove(before.state, before.history, cfg, FALSE,
                                      hist[Len(hist)].to) :
                        before \in {SimpleAfter(SubSeq(hist, 1, Len(hist) - 1), cfg)} } })

\* the fields the two engines share agree
SameFields(core, simple) ==
  /\ simple.pos = core.pos
  /\ simple.edges = core.edges
  /\ simple.current = core.current
  /\ simple.extraTurn = core.extraTurn
  /\ simple.winner = core.winner
  /\ simple.blockedLoser = core.blockedLoser

\* C37: the two rule engines agree: started on the same configuration with
\* player 0 to act, the core GameEngine and the presentation layer's engine
\* (stalemateAsDraw false) accept the same targets and reach the same
\* position, segment set, active player, extraTurn flag, winner and
\* blockedLoser after every sequence of moves.
C37_EnginesAgree ==
  \A simple \in {SimpleAfter(history, config)} :
    /\ SameFields(state, simple.state)
    /\ \A q \in Targets(config) :
         makeMove(state, history, config, q).ret
           = simpleMakeMove(simple.state, simple.history, config, FALSE, q).ret

\* what the two engines agree on as long as no move has entered a goal
\* region of either: the token, the segments, the history, the active
\* player and the outcome
C37_SameTrail ==
  \A simple \in {SimpleAfter(history, config)} :
    (\A i \in 1..Len(history) :
        ~InGoal(history[i].to, config) /\ ~InSimpleGoal(history[i].to, config))
    => /\ simple.state.pos = state.pos
       /\ simple.state.edges = state.edges
       /\ simple.history = history
       /\ simple.state.current = state.current
       /\ simple.state.blockedLoser = state.blockedLoser
       /\ simple.state.winner = state.winner

\* the two engines name the same winner
C37_SameWinner ==
  \A simple \in {SimpleAfter(history, config)} :
    (state.winner # NULL /\ simple.state.winner # NULL)
      => simple.state.winner = state.winner

\* the two engines end the game on the same moves
C37_SameGoals ==
  \A simple \in {SimpleAfter(history, config)} :
    (state.winner # NULL) <=> (simple.state.winner # NULL)

(* ------------------ clicks during the agent's turn, C39 ------------------ *)

\* a click on the board that found the component in computer mode with
\* player 1 to act, or with the game ended by a goal or by a draw
ClickOutOfTurn ==
  /\ last.op = "onChoose"
  /\ last.mode = "computer"
  /\ \/ last.state.current = 1
     \/ last.state.winner # NULL
     \/ last.state.draw

\* C39: in computer mode a click on the board that arrives while player 1 is
\* to act, or after the game ended by a goal or by a draw, changes neither
\* the state of the game nor the history, whatever vertex was clicked and
\* whether the timer of the computer's move is pending or has fired; the
\* timer that was pending stays pending
C39_ClickOutOfTurnIgnored ==
  ClickOutOfTurn =>
    /\ ~last.ret
    /\ state = last.state
    /\ history = last.history
    /\ ui = last.ui

\* player 1 to act with the timer pending, and the click was on a vertex to
\* which makeMove of that render would have moved
C39_Witness ==
  /\ ClickOutOfTurn
  /\ state.winner = NULL /\ ~state.draw
  /\ state.current = 1
  /\ ui.timer.set /\ ui.pending # {}
  /\ simpleMakeMove(state, history, config, ui.stalemateAsDraw, last.to).ret

\* the game has ended and no timer is pending; the click comes afterwards
C39_WitnessEnded ==
  /\ ClickOutOfTurn
  /\ state.winner # NULL \/ state.draw
  /\ Len(history) >= 1
  /\ ui.pending = {}
====
